---- MODULE Spec2Model ----
(***************************************************************************)
(* GreenPulse AI frontend: the mock response fabricators (mockData.js),    *)
(* the gateway facade (api.js) and the view components' submit handlers.   *)
(*                                                                         *)
(* Numbers.  Math.random() is continuous; a draw randomBetween(min, max)   *)
(* is modelled on a grid of Res points per unit, so a score is an integer  *)
(* number of "ticks" (1 tick = 1/Res).  Derived reals are kept exactly as  *)
(* an integer numerator over a stated denominator, and Math.round is       *)
(* computed on that fraction (round half up), never taken as the identity. *)
(* Money is in cents, rates in basis points, allocations in percent.       *)
(***************************************************************************)
EXTENDS Integers, Sequences, FiniteSets

VARIABLES
    USE_MOCK,      \* api.js:5   !process.env.REACT_APP_API_URL
    activeView,    \* App: useState('dashboard')
    instance,      \* number of the component instance now mounted
    loading,       \* the mounted component's loading state
    result,        \* the mounted form's result state (Null when none)
    error,         \* the mounted form's error state (Null when none)
    systemStatus,  \* the mounted Dashboard's systemStatus state
    calls,         \* gateway calls issued so far, in order of issue
    stats,         \* the mounted Dashboard's stats state (Null when none)
    interval,      \* the Dashboard's setInterval timer (Null when cleared)
    lastCall,      \* fabricator under test: its name, arguments and draws
    response       \* the object the fabricator under test returned; with
                   \* the gateway, what the last request ended in

vars == <<USE_MOCK, activeView, instance, loading, result, error,
          systemStatus, calls, stats, interval, lastCall, response>>

uiVars == <<USE_MOCK, activeView, instance, loading, result, error,
            systemStatus, calls, stats, interval>>

fabVars == <<lastCall, response>>

\* JavaScript null, for the states that hold an object or null
Null == [null |-> TRUE]

----------------------------------------------------------------------------
(* Bounds of the model *)

\* grid points per unit for the continuous score draws
Res == 1

\* gateway calls issued in one run
MaxCalls == 3

\* ticks of one Dashboard's timer
MaxTicks == 2

\* component instances mounted in one run (the first Dashboard included)
MaxMounts == 3

----------------------------------------------------------------------------
(* Arithmetic helpers *)

\* Math.round(num/den) for den > 0: the nearest integer, halves going up
MathRound(num, den) == (2 * num + den) \div (2 * den)

\* Math.min
\* Math.round(x) of a double x whose exact value is num/den.  The doubles of
\* this program are exact or off by less than 1e-15, which decides the
\* rounding only where num/den is a tie h + 1/2: below tells that the
\* double lies below the tie, and it is then rounded down.
MathRoundDouble(num, den, below) ==
    IF below /\ (2 * num) % (2 * den) = den
    THEN MathRound(num, den) - 1
    ELSE MathRound(num, den)

MathMin(a, b) == IF a <= b THEN a ELSE b

\* Math.random() * max + min, the span forgotten: values in [min, min+max)
randomBetweenNoSpan(min, max, den) == (min * den) .. ((min + max) * den - 1)

\* randomBetween(min, max) = Math.random()*(max-min)+min, in [min, max):
\* the grid points of that interval, in units of 1/den
randomBetween(min, max, den) == (min * den) .. (max * den - 1)

\* randomInt(min, max) = Math.floor(randomBetween(min, max)): min .. max-1
randomInt(min, max) == min .. (max - 1)

\* the points of the interval S within one grid step of a threshold in
\* pts, and S's two ends: the draws at which a comparison against pts can
\* change its outcome
Near(S, pts) ==
    {x \in UNION {(p - 1) .. (p + 1) : p \in pts} : x \in S}
    \cup {CHOOSE x \in S : x - 1 \notin S, CHOOSE x \in S : x + 1 \notin S}

RECURSIVE SumOver(_, _)
SumOver(f, n) == IF n = 0 THEN 0 ELSE f[n] + SumOver(f, n - 1)

----------------------------------------------------------------------------
(* mockData.js: mockSystemStatus *)

mockSystemStatus(now, d) ==
    [status |-> "operational",
     timestamp |-> now,
     agents |-> [data_collection |-> "active",
                 risk_assessment |-> "active",
                 portfolio_optimization |-> "active",
                 inclusion |-> "active"],
     queue_size |-> d.queue_size,
     cache_size |-> d.cache_size]

----------------------------------------------------------------------------
(* mockData.js: mockCreditAssessment *)

\* combinedScore = traditionalScore*0.6 + carbonScore*0.4, as a numerator
\* over CombinedDen (scores in ticks)
CombinedDen == 10 * Res

combinedScore(traditionalScore, carbonScore) ==
    6 * traditionalScore + 4 * carbonScore

\* the if / else-if chain of lines 26-30 with every >= written as >
creditRatingStrict(combined) ==
    IF combined > 80 * CombinedDen THEN [rating |-> "AAA", interestAdj |-> -2]
    ELSE IF combined > 70 * CombinedDen THEN [rating |-> "AA", interestAdj |-> -1]
    ELSE IF combined > 60 * CombinedDen THEN [rating |-> "A", interestAdj |-> 0]
    ELSE IF combined > 50 * CombinedDen THEN [rating |-> "BBB", interestAdj |-> 1]
    ELSE [rating |-> "BB", interestAdj |-> 2]

\* rating and interest adjustment (in hundredths: -2 is -0.02) of a combined
\* score given over CombinedDen
creditRating(combined) ==
    IF combined >= 80 * CombinedDen THEN [rating |-> "AAA", interestAdj |-> -2]
    ELSE IF combined >= 70 * CombinedDen THEN [rating |-> "AA", interestAdj |-> -1]
    ELSE IF combined >= 60 * CombinedDen THEN [rating |-> "A", interestAdj |-> 0]
    ELSE IF combined >= 50 * CombinedDen THEN [rating |-> "BBB", interestAdj |-> 1]
    ELSE [rating |-> "BB", interestAdj |-> 2]

CreditRecommendationsLow ==
    <<"Consider implementing renewable energy sources to improve carbon score",
      "Develop a carbon reduction roadmap to access better financing terms",
      "Improve ESG reporting transparency to enhance investor confidence">>

CreditRecommendationsOk ==
    <<"Maintain current sustainability initiatives",
      "Consider carbon offset programs for remaining emissions">>

\* d: the random draws in the order the code makes them.  Scores in ticks,
\* trend in thousandths, leverage and defaultHistory (randomBetween(0, 1))
\* in hundredths.  Rounded scores are in hundredths.  entityType is accepted
\* and not used.
mockCreditAssessment(entityId, entityType, now, d) ==
    LET traditionalScore == d.traditionalScore
        carbonScore == d.carbonScore
        esgScore == d.esgScore
        combined == combinedScore(traditionalScore, carbonScore)
        band == creditRating(combined)
        emissions == d.emissions
        trend == d.trend
        renewablePct == d.renewablePct
    IN  [entity_id |-> entityId,
         timestamp |-> now,
         carbon_score |-> MathRound(100 * carbonScore, Res),
         risk_analysis |->
           [traditional_risk |->
              [risk_score |-> MathRound(100 * traditionalScore, Res),
               revenue_assessment |->
                 IF traditionalScore > 70 * Res THEN "strong" ELSE "moderate",
               profitability_assessment |->
                 IF traditionalScore > 65 * Res THEN "strong" ELSE "moderate",
               leverage_assessment |->
                 IF d.leverage > 50 THEN "low" ELSE "moderate",
               liquidity_assessment |->
                 IF traditionalScore > 60 * Res THEN "strong" ELSE "moderate",
               default_history |->
                 IF d.defaultHistory > 80 THEN "concerning" ELSE "clean"],
            carbon_risk |->
              [carbon_risk_score |-> MathRound(100 * carbonScore, Res),
               emission_intensity |->
                 IF emissions > 2000 THEN "high" ELSE "moderate",
               trend_direction |->
                 IF trend < 0 THEN "improving" ELSE "worsening",
               transition_readiness |->
                 IF renewablePct > 50 THEN "strong" ELSE "developing",
               regulatory_risk |->
                 IF emissions > 3000 /\ renewablePct < 30 THEN "high"
                 ELSE IF renewablePct < 50 THEN "moderate" ELSE "low",
               stranded_asset_risk |->
                 IF renewablePct < 20 THEN "high" ELSE "low"],
            esg_risk |->
              [esg_risk_score |-> MathRound(100 * esgScore, Res),
               environmental_rating |->
                 IF esgScore > 80 * Res THEN "excellent"
                 ELSE IF esgScore > 70 * Res THEN "good" ELSE "fair",
               social_rating |->
                 IF esgScore > 75 * Res THEN "good" ELSE "fair",
               governance_rating |->
                 IF esgScore > 70 * Res THEN "good" ELSE "fair",
               sdg_aligned_count |-> d.sdg,
               reputational_risk |->
                 IF esgScore > 70 * Res THEN "low" ELSE "moderate"],
            composite_risk_score |-> MathRound(100 * combined, CombinedDen),
            credit_score |->
              MathRound(300 * 100 * CombinedDen + 550 * combined,
                        100 * CombinedDen),
            risk_category |->
              IF combined >= 80 * CombinedDen THEN "low_risk"
              ELSE IF combined >= 60 * CombinedDen THEN "moderate_risk"
              ELSE "elevated_risk"],
         credit_rating |->
           [rating |-> band.rating,
            combined_score |-> MathRound(100 * combined, CombinedDen),
            traditional_score |-> MathRound(100 * traditionalScore, Res),
            carbon_score |-> MathRound(100 * carbonScore, Res),
            interest_rate_adjustment |-> band.interestAdj],
         recommendations |->
           IF carbonScore < 60 * Res THEN CreditRecommendationsLow
           ELSE CreditRecommendationsOk,
         status |-> "success"]

----------------------------------------------------------------------------
(* mockData.js: mockPortfolioOptimization *)

\* one row of an asset table: allocation in percent, expected_return in
\* thousandths, volatility in hundredths, annual_co2_tons in tons
Asset(name, allocation, expected_return, volatility, annual_co2_tons) ==
    [name |-> name, allocation |-> allocation,
     expected_return |-> expected_return, volatility |-> volatility,
     annual_co2_tons |-> annual_co2_tons]

RiskTiers == {"conservative", "moderate", "aggressive"}

\* the tables with one allocation mistyped (conservative green bonds at 0.55)
assetSetsSkewed(isGreen) ==
    [t \in RiskTiers |->
       <<Asset("Green Bonds", 55, 45, 6, 25),
         Asset("Renewable Energy Funds", 25, 70, 12, 50),
         Asset("ESG Index Funds", 15, 65, 10, 100),
         Asset("Sustainable Real Estate", 10, 55, 9, 75)>>]

\* const assetSets = { conservative: isGreen ? [...] : [...], ... }
assetSets(isGreen) ==
    [conservative |->
       IF isGreen
       THEN <<Asset("Green Bonds", 50, 45, 6, 25),
              Asset("Renewable Energy Funds", 25, 70, 12, 50),
              Asset("ESG Index Funds", 15, 65, 10, 100),
              Asset("Sustainable Real Estate", 10, 55, 9, 75)>>
       ELSE <<Asset("Corporate Bonds", 60, 40, 5, 500),
              Asset("Large Cap Stocks", 25, 80, 15, 2000),
              Asset("Real Estate", 10, 60, 12, 1500),
              Asset("Cash", 5, 10, 2, 0)>>,
     moderate |->
       IF isGreen
       THEN <<Asset("ESG Equity Funds", 35, 85, 14, 90),
              Asset("Green Bonds", 30, 45, 6, 25),
              Asset("Renewable Infrastructure", 20, 75, 11, 60),
              Asset("Sustainable Agriculture", 15, 70, 13, 50)>>
       ELSE <<Asset("Index Funds", 40, 80, 15, 2000),
              Asset("Bonds", 30, 40, 6, 500),
              Asset("Stocks", 20, 100, 18, 2500),
              Asset("Alternatives", 10, 70, 20, 1800)>>,
     aggressive |->
       IF isGreen
       THEN <<Asset("Clean Tech Stocks", 40, 130, 24, 75),
              Asset("Solar Energy Companies", 25, 140, 26, 40),
              Asset("Electric Vehicle Sector", 20, 120, 23, 100),
              Asset("Carbon Credit Futures", 15, 100, 28, 25)>>
       ELSE <<Asset("Growth Stocks", 50, 120, 25, 3000),
              Asset("Tech Stocks", 25, 150, 30, 2500),
              Asset("Emerging Markets", 15, 100, 28, 3500),
              Asset("Commodities", 10, 80, 22, 4000)>>]

\* the products annual_co2_tons * allocation of the tables that are a tie
\* and fall below it in doubles: 90 * 0.35 is 31.499999999999996.  (The
\* other ties, 25 * 0.5, 50 * 0.25, 25 * 0.3, 50 * 0.15 and 75 * 0.1, are
\* 12.5 and 7.5 in doubles too.)
Co2SharesBelowTie == {<<90, 35>>}

\* the sums of expected_return * allocation of the tables that are a tie of
\* the fourth decimal and fall below it in doubles: 0.085 * 0.35 + 0.045 *
\* 0.3 + 0.075 * 0.2 + 0.07 * 0.15 is 0.06874999999999999.  (0.05525 of
\* the conservative green table times 10000 is 552.5 in doubles too.)
ExpectedReturnsBelowTie == {6875}

\* the assets with annual_co2_tons rounded and not weighted by the allocation
generateAssetsUnweighted(isGreen, capital, riskTolerance, esg) ==
    LET table == assetSets(isGreen)[riskTolerance]
    IN  [i \in 1 .. Len(table) |->
           LET asset == table[i]
               base == [name |-> asset.name,
                        allocation |-> asset.allocation,
                        expected_return |-> asset.expected_return,
                        volatility |-> asset.volatility,
                        type |-> IF isGreen THEN "green" ELSE "traditional",
                        value |-> MathRound(capital * asset.allocation, 100),
                        annual_co2_tons |->
                          MathRound(asset.annual_co2_tons, 1)]
           IN  IF isGreen
               THEN [f \in DOMAIN base \cup {"esg_rating", "sdg_aligned"} |->
                       IF f = "esg_rating"
                       THEN (IF esg[i] > 50 THEN "AAA" ELSE "AA")
                       ELSE IF f = "sdg_aligned" THEN "true"
                       ELSE base[f]]
               ELSE base]

\* assetSets[riskTolerance].map(asset => ({...asset, type, value,
\* annual_co2_tons, ...(isGreen && {esg_rating, sdg_aligned})})).
\* capital and value in cents; esg[i] is asset i's randomBetween(0, 1) draw
\* in hundredths (made for green assets only).
generateAssets(isGreen, capital, riskTolerance, esg) ==
    LET table == assetSets(isGreen)[riskTolerance]
    IN  [i \in 1 .. Len(table) |->
           LET asset == table[i]
               base == [name |-> asset.name,
                        allocation |-> asset.allocation,
                        expected_return |-> asset.expected_return,
                        volatility |-> asset.volatility,
                        type |-> IF isGreen THEN "green" ELSE "traditional",
                        value |-> MathRound(capital * asset.allocation, 100),
                        annual_co2_tons |->
                          MathRoundDouble(
                            asset.annual_co2_tons * asset.allocation, 100,
                            <<asset.annual_co2_tons, asset.allocation>>
                              \in Co2SharesBelowTie)]
           IN  IF isGreen
               THEN [f \in DOMAIN base \cup {"esg_rating", "sdg_aligned"} |->
                       IF f = "esg_rating"
                       THEN (IF esg[i] > 50 THEN "AAA" ELSE "AA")
                       ELSE IF f = "sdg_aligned" THEN "true"
                       ELSE base[f]]
               ELSE base]

\* the metrics with the footprint weighting the assets' shares by their
\* allocations once more (sum + a.annual_co2_tons * a.allocation)
calcMetricsReweighted(assets) ==
    LET n == Len(assets)
        expectedReturn ==
            SumOver([i \in 1 .. n |->
                       assets[i].expected_return * assets[i].allocation], n)
        volatility ==
            SumOver([i \in 1 .. n |->
                       assets[i].volatility * assets[i].allocation], n)
        carbonFootprint ==
            SumOver([i \in 1 .. n |->
                       assets[i].annual_co2_tons * assets[i].allocation], n)
              \div 100
    IN  [expectedReturn |-> expectedReturn,
         volatility |-> volatility,
         sharpeNum |-> expectedReturn - 2000,
         sharpeDen |-> 10 * volatility,
         carbonFootprint |-> carbonFootprint]

\* expectedReturn over 100000, volatility over 10000, carbonFootprint in
\* tons, sharpeRatio = (expectedReturn - 0.02) / volatility as a fraction
calcMetrics(assets) ==
    LET n == Len(assets)
        expectedReturn ==
            SumOver([i \in 1 .. n |->
                       assets[i].expected_return * assets[i].allocation], n)
        volatility ==
            SumOver([i \in 1 .. n |->
                       assets[i].volatility * assets[i].allocation], n)
        carbonFootprint ==
            SumOver([i \in 1 .. n |-> assets[i].annual_co2_tons], n)
    IN  [expectedReturn |-> expectedReturn,
         volatility |-> volatility,
         sharpeNum |-> expectedReturn - 2000,
         sharpeDen |-> 10 * volatility,
         carbonFootprint |-> carbonFootprint]

\* the buckets with their boundary values in the bucket above
netZeroTimelineStrict(carbonFootprint) ==
    IF carbonFootprint < 100 THEN 2
    ELSE IF carbonFootprint < 300 THEN 5 ELSE 8

\* footprint <= 100 ? 2 : footprint <= 300 ? 5 : 8
netZeroTimeline(carbonFootprint) ==
    IF carbonFootprint <= 100 THEN 2
    ELSE IF carbonFootprint <= 300 THEN 5 ELSE 8

\* the optimizer reporting whether the green portfolio reaches the target
\* return (targetReturn in hundredths)
mockPortfolioOptimizationTargeted(capital, riskTolerance, targetReturn, now, d) ==
    LET tradAssets == generateAssets(FALSE, capital, riskTolerance, d.esg)
        greenAssets == generateAssets(TRUE, capital, riskTolerance, d.esg)
        tradMetrics == calcMetrics(tradAssets)
        greenMetrics == calcMetrics(greenAssets)
        reduction == tradMetrics.carbonFootprint - greenMetrics.carbonFootprint
        \* reductionPct = reduction / tradMetrics.carbonFootprint * 100
        pctNum == 100 * reduction
        pctDen == tradMetrics.carbonFootprint
    IN  [timestamp |-> now,
         traditional_portfolio |->
           [portfolio_type |-> "traditional",
            total_value |-> capital,
            assets |-> tradAssets,
            expected_return |->
              MathRoundDouble(tradMetrics.expectedReturn, 10,
                tradMetrics.expectedReturn \in ExpectedReturnsBelowTie),
            volatility |-> MathRound(tradMetrics.volatility, 1),
            sharpe_ratio |->
              MathRound(1000 * tradMetrics.sharpeNum, tradMetrics.sharpeDen),
            annual_carbon_footprint |->
              MathRound(tradMetrics.carbonFootprint, 1)],
         green_portfolio |->
           [portfolio_type |-> "green",
            total_value |-> capital,
            assets |-> greenAssets,
            expected_return |->
              MathRoundDouble(greenMetrics.expectedReturn, 10,
                greenMetrics.expectedReturn \in ExpectedReturnsBelowTie),
            volatility |-> MathRound(greenMetrics.volatility, 1),
            sharpe_ratio |->
              MathRound(1000 * greenMetrics.sharpeNum, greenMetrics.sharpeDen),
            annual_carbon_footprint |->
              MathRound(greenMetrics.carbonFootprint, 1),
            carbon_neutrality_timeline_years |->
              netZeroTimeline(greenMetrics.carbonFootprint),
            sdg_alignment_score |-> 85],
         carbon_comparison |->
           [traditional_emissions_tons |->
              MathRound(tradMetrics.carbonFootprint, 1),
            green_emissions_tons |->
              MathRound(greenMetrics.carbonFootprint, 1),
            reduction_tons |-> MathRound(reduction, 1),
            reduction_percentage |-> MathRound(10 * pctNum, pctDen),
            net_zero_timeline_years |->
              netZeroTimeline(greenMetrics.carbonFootprint)],
         recommendations |->
           [text |-> "Consider green portfolio for N% lower carbon footprint with comparable returns",
            N |-> MathRound(pctNum, pctDen)],
         target_met |-> greenMetrics.expectedReturn >= 1000 * targetReturn,
         status |-> "success"]

\* expected_return and volatility in ten-thousandths, sharpe_ratio in
\* thousandths, reduction_percentage in tenths.  targetReturn is accepted
\* and not used.
mockPortfolioOptimization(capital, riskTolerance, targetReturn, now, d) ==
    LET tradAssets == generateAssets(FALSE, capital, riskTolerance, d.esg)
        greenAssets == generateAssets(TRUE, capital, riskTolerance, d.esg)
        tradMetrics == calcMetrics(tradAssets)
        greenMetrics == calcMetrics(greenAssets)
        reduction == tradMetrics.carbonFootprint - greenMetrics.carbonFootprint
        \* reductionPct = reduction / tradMetrics.carbonFootprint * 100
        pctNum == 100 * reduction
        pctDen == tradMetrics.carbonFootprint
    IN  [timestamp |-> now,
         traditional_portfolio |->
           [portfolio_type |-> "traditional",
            total_value |-> capital,
            assets |-> tradAssets,
            expected_return |->
              MathRoundDouble(tradMetrics.expectedReturn, 10,
                tradMetrics.expectedReturn \in ExpectedReturnsBelowTie),
            volatility |-> MathRound(tradMetrics.volatility, 1),
            sharpe_ratio |->
              MathRound(1000 * tradMetrics.sharpeNum, tradMetrics.sharpeDen),
            annual_carbon_footprint |->
              MathRound(tradMetrics.carbonFootprint, 1)],
         green_portfolio |->
           [portfolio_type |-> "green",
            total_value |-> capital,
            assets |-> greenAssets,
            expected_return |->
              MathRoundDouble(greenMetrics.expectedReturn, 10,
                greenMetrics.expectedReturn \in ExpectedReturnsBelowTie),
            volatility |-> MathRound(greenMetrics.volatility, 1),
            sharpe_ratio |->
              MathRound(1000 * greenMetrics.sharpeNum, greenMetrics.sharpeDen),
            annual_carbon_footprint |->
              MathRound(greenMetrics.carbonFootprint, 1),
            carbon_neutrality_timeline_years |->
              netZeroTimeline(greenMetrics.carbonFootprint),
            sdg_alignment_score |-> 85],
         carbon_comparison |->
           [traditional_emissions_tons |->
              MathRound(tradMetrics.carbonFootprint, 1),
            green_emissions_tons |->
              MathRound(greenMetrics.carbonFootprint, 1),
            reduction_tons |-> MathRound(reduction, 1),
            reduction_percentage |-> MathRound(10 * pctNum, pctDen),
            net_zero_timeline_years |->
              netZeroTimeline(greenMetrics.carbonFootprint)],
         recommendations |->
           [text |-> "Consider green portfolio for N% lower carbon footprint with comparable returns",
            N |-> MathRound(pctNum, pctDen)],
         status |-> "success"]

----------------------------------------------------------------------------
(* Fixed-point arithmetic for Math.pow and the amortization quotient *)

\* one unit of the fixed-point fractions below
Fix == 1000000000

\* a*b = MulQuo*c + MulRem with 0 <= MulRem < c, for 0 <= a, b and
\* 0 < c <= Fix, computed by doubling so that no intermediate product
\* leaves 32 bits
MulDivGo(c) ==
    [x \in Nat, y \in Nat |->
       LET R[k \in Nat] ==
               IF k = 0 THEN 0
               ELSE (((2 * R[k \div 2]) % c) + (k % 2) * (x % c)) % c
           Q[k \in Nat] ==
               IF k = 0 THEN 0
               ELSE 2 * Q[k \div 2]
                    + ((2 * R[k \div 2]) \div c)
                    + (k % 2) * (x \div c)
                    + ((((2 * R[k \div 2]) % c) + (k % 2) * (x % c)) \div c)
       IN  [q |-> Q[y], r |-> R[y]]]

MulRem(a, b, c) == MulDivGo(c)[a, b].r

MulQuo(a, b, c) == MulDivGo(c)[a, b].q

MulDiv(a, b, c) == MulDivGo(c)[a, b]

\* Math.pow(base, n) for a fixed-point base >= 1 and a natural n, by
\* repeated squaring
MathPow(base, n) ==
    LET Sq[v \in Nat] == MulQuo(v, v, Fix)
        P[k \in Nat] ==
            IF k = 0 THEN Fix
            ELSE IF k % 2 = 0 THEN Sq[P[k \div 2]]
            ELSE MulQuo(base, P[k - 1], Fix)
    IN  P[n]

----------------------------------------------------------------------------
(* mockData.js: mockMicroLoan *)

\* compositeScore = mobile*0.5 + green*0.3 + social*0.2 over CombinedDen
compositeScore(mobileScore, greenScore, socialScore) ==
    5 * mobileScore + 3 * greenScore + 2 * socialScore

\* the gate written with > instead of >=
loanApprovedStrict(composite) == composite > 55 * CombinedDen

\* const approved = compositeScore >= 55
loanApproved(composite) == composite >= 55 * CombinedDen

\* the bands with their boundary values in the band below
loanBandStrict(composite, amount) ==
    IF composite > 80 * CombinedDen
    THEN [interestRate |-> 600, maxAmount |-> 12 * amount]
    ELSE IF composite > 65 * CombinedDen
    THEN [interestRate |-> 800, maxAmount |-> 10 * amount]
    ELSE IF composite > 55 * CombinedDen
    THEN [interestRate |-> 1000, maxAmount |-> 8 * amount]
    ELSE [interestRate |-> 1200, maxAmount |-> 5 * amount]

\* lines 192-197: interestRate in basis points, maxAmount in tenths of a
\* cent (amount in cents)
loanBand(composite, amount) ==
    IF composite >= 80 * CombinedDen
    THEN [interestRate |-> 600, maxAmount |-> 12 * amount]
    ELSE IF composite >= 65 * CombinedDen
    THEN [interestRate |-> 800, maxAmount |-> 10 * amount]
    ELSE IF composite >= 55 * CombinedDen
    THEN [interestRate |-> 1000, maxAmount |-> 8 * amount]
    ELSE [interestRate |-> 1200, maxAmount |-> 5 * amount]

termMonths == 24

\* the interest rates of loanBand, in basis points
InterestRates == {600, 800, 1000, 1200}

\* r * (1+r)^n / ((1+r)^n - 1) with r = interestRate / 12, as a fixed-point
\* fraction, for each rate the bands can select
annuityFactor ==
    [interestRate \in InterestRates |->
       LET monthlyRate == MulQuo(interestRate, Fix, 120000)
           pow == MathPow(Fix + monthlyRate, termMonths)
       IN  MulQuo(MulQuo(monthlyRate, pow, Fix), Fix, pow - Fix)]

\* a payment of simple interest: P * (1 + 2 * interestRate) / 24
monthlyPaymentFlat(approvedAmount, interestRate) ==
    MulDiv(approvedAmount, (Fix + interestRate * (Fix \div 5000)) \div 24, Fix)

\* monthlyPayment = P * (r * (1+r)^n) / ((1+r)^n - 1), r = interestRate/12.
\* approvedAmount in tenths of a cent; the result is q + r/Fix tenths of a
\* cent.
monthlyPayment(approvedAmount, interestRate) ==
    MulDiv(approvedAmount, annuityFactor[interestRate], Fix)

SpecialTermsGreen ==
    <<"Green bonus: 0.5% interest rate reduction for maintaining solar generation",
      "Carbon credit: Earn credits for verified emission reductions",
      "Flexible repayment: Adjust payments based on seasonal income",
      "Financial literacy: Free access to online financial education">>

SpecialTermsBase ==
    <<"Flexible repayment: Adjust payments based on seasonal income",
      "Financial literacy: Free access to online financial education">>

\* amount and the money fields in cents, scores in hundredths, interest_rate
\* in basis points, confidence (randomBetween(0.75, 0.92)) drawn in
\* thousandths and reported in hundredths, dates in days.  purpose and
\* additionalData are accepted and not used.
mockMicroLoan(applicantId, amount, purpose, additionalData, now, d) ==
    LET mobileScore == d.mobileScore
        greenScore == d.greenScore
        socialScore == d.socialScore
        composite == compositeScore(mobileScore, greenScore, socialScore)
        approved == loanApproved(composite)
        band == loanBand(composite, amount)
        \* Math.min(amount, maxAmount), in tenths of a cent
        approvedAmount == MathMin(10 * amount, band.maxAmount)
        pay == monthlyPayment(approvedAmount, band.interestRate)
        \* totalRepayment = monthlyPayment * termMonths, tenths of a cent
        \* (whole part; the fraction left over is below one tenth)
        totalRepayment == termMonths * pay.q + MulQuo(pay.r, termMonths, Fix)
    IN  [applicant_id |-> applicantId,
         timestamp |-> now,
         assessment |->
           [applicant_id |-> applicantId,
            alternative_credit_score |-> MathRound(100 * composite, CombinedDen),
            mobile_payment_score |-> MathRound(100 * mobileScore, Res),
            green_activity_score |-> MathRound(100 * greenScore, Res),
            social_score |-> MathRound(100 * socialScore, Res),
            approved |-> approved,
            confidence_level |-> MathRound(d.confidence, 10),
            assessment_method |-> "alternative_data"],
         loan_terms |->
           [approved_amount |-> MathRound(approvedAmount, 10),
            interest_rate |-> MathRound(band.interestRate, 1),
            loan_term_months |-> termMonths,
            monthly_payment |-> (pay.q + 5) \div 10,
            total_repayment |-> (totalRepayment + 5) \div 10,
            total_interest |-> (totalRepayment - approvedAmount + 5) \div 10,
            first_payment_date |-> now + 30,
            special_terms |->
              IF greenScore > 70 * Res THEN SpecialTermsGreen
              ELSE SpecialTermsBase],
         approval_status |-> approved,
         status |-> "success"]

----------------------------------------------------------------------------
(* mockData.js: mockGreenwashingCheck *)

Anomaly(type, description, severity) ==
    [type |-> type, description |-> description, severity |-> severity]

\* the rules with the first one's emissions threshold inclusive
\* (emissions >= 3000)
greenwashingRulesInclusive(envScore, emissions, renewablePct, trend) ==
    <<[fired |-> envScore > 80 /\ emissions >= 3000,
       points |-> 2,
       anomaly |-> Anomaly("high_score_high_emissions",
           "Environmental score is high but emissions are substantial",
           "medium")],
      [fired |-> envScore > 70 /\ renewablePct < 20,
       points |-> 3,
       anomaly |-> Anomaly("score_renewable_mismatch",
           "High environmental score but low renewable energy usage",
           "high")],
      [fired |-> trend > 50 /\ envScore > 75,
       points |-> 3,
       anomaly |-> Anomaly("increasing_emissions_high_score",
           "Emissions increasing while maintaining high environmental score",
           "high")]>>

\* the three rule checks of lines 253-278 in order: whether each fires, the
\* points it adds to riskFactors and the anomaly it pushes
greenwashingRules(envScore, emissions, renewablePct, trend) ==
    <<[fired |-> envScore > 80 /\ emissions > 3000,
       points |-> 2,
       anomaly |-> Anomaly("high_score_high_emissions",
           "Environmental score is high but emissions are substantial",
           "medium")],
      [fired |-> envScore > 70 /\ renewablePct < 20,
       points |-> 3,
       anomaly |-> Anomaly("score_renewable_mismatch",
           "High environmental score but low renewable energy usage",
           "high")],
      [fired |-> trend > 50 /\ envScore > 75,
       points |-> 3,
       anomaly |-> Anomaly("increasing_emissions_high_score",
           "Emissions increasing while maintaining high environmental score",
           "high")]>>

\* the risk index with 35 points of index per risk factor
riskIndexSteep(riskFactors, draw) == MathMin(100, riskFactors * 35 + draw)

\* the risk index without its Math.min(100, ...)
riskIndexUnclamped(riskFactors, draw) == riskFactors * 15 + draw

\* const riskIndex = Math.min(100, riskFactors * 15 + randomInt(0, 20))
riskIndex(riskFactors, draw) == MathMin(100, riskFactors * 15 + draw)

\* the levels with their boundary values in the level above
riskLevelInclusive(index) ==
    IF index >= 60 THEN "high" ELSE IF index >= 30 THEN "moderate" ELSE "low"

\* riskIndex > 60 ? 'high' : riskIndex > 30 ? 'moderate' : 'low'
riskLevel(index) ==
    IF index > 60 THEN "high" ELSE IF index > 30 THEN "moderate" ELSE "low"

\* the recommendations as an if / else-if chain, one band's items only
greenwashingRecommendationsExclusive(index) ==
    IF index > 50
    THEN <<"Request third-party verification of carbon claims",
           "Conduct detailed supply chain emissions audit">>
    ELSE IF index > 30
    THEN <<"Monitor emissions data more frequently">>
    ELSE <<"Continue current monitoring practices",
           "Consider publishing detailed sustainability reports">>

\* lines 283-294: the three independent ifs, appended in order
greenwashingRecommendations(index) ==
    (IF index > 50
     THEN <<"Request third-party verification of carbon claims",
            "Conduct detailed supply chain emissions audit">>
     ELSE <<>>)
    \o (IF index > 30
        THEN <<"Monitor emissions data more frequently">>
        ELSE <<>>)
    \o (IF index <= 30
        THEN <<"Continue current monitoring practices",
               "Consider publishing detailed sustainability reports">>
        ELSE <<>>)

\* trend in thousandths; confidence (randomBetween(0.75, 0.95)) drawn in
\* thousandths and reported in hundredths
mockGreenwashingCheck(companyId, now, d) ==
    LET rules == greenwashingRules(d.envScore, d.emissions, d.renewablePct,
                                   d.trend)
        fired == SelectSeq(rules, LAMBDA r : r.fired)
        anomalies == [i \in 1 .. Len(fired) |-> fired[i].anomaly]
        riskFactors ==
            SumOver([i \in 1 .. Len(fired) |-> fired[i].points], Len(fired))
        index == riskIndex(riskFactors, d.riskDraw)
    IN  [company_id |-> companyId,
         timestamp |-> now,
         greenwashing_risk_index |-> index,
         risk_level |-> riskLevel(index),
         anomalies |-> anomalies,
         anomaly_count |-> Len(anomalies),
         recommendations |-> greenwashingRecommendations(index),
         confidence |-> MathRound(d.confidence, 10),
         status |-> "success"]

----------------------------------------------------------------------------
(* Inputs: the draws of one fabricator call, as sets the claims range over. *)
(* A large range is sampled at its ends and around the thresholds the code *)
(* compares it with; the draws that decide a band are taken on the whole   *)
(* grid.  The calls made are slices around a default draw.                 *)

Times == {0, 1}

EntityIds == {"ACME", "u-17"}

EntityTypes == {"company", "individual"}

StatusDraws ==
    [queue_size : randomInt(0, 10),
     cache_size : Near(randomInt(50, 200), {})]

CreditDefault ==
    [traditionalScore |-> 45 * Res, carbonScore |-> 40 * Res,
     esgScore |-> 50 * Res, emissions |-> 500, trend |-> 0,
     renewablePct |-> 10, leverage |-> 0, defaultHistory |-> 0, sdg |-> 2]

CreditEmissions == Near(randomInt(500, 4000), {2000, 3000})

\* trend = randomBetween(-0.15, 0.1), in thousandths
CreditTrends == Near(randomBetween(-150, 100, 1), {0})

CreditRenewables == Near(randomInt(10, 75), {20, 30, 50})

\* randomBetween(0, 1) > 0.5 and > 0.8, in hundredths
CreditLeverages == Near(randomBetween(0, 100, 1), {50})

CreditDefaultHistories == Near(randomBetween(0, 100, 1), {80})

\* capital in cents
Capitals == {100, 1234567, 10000000}

\* target return in hundredths
TargetReturns == {5, 8, 12}

PortfolioDefault == [esg |-> <<0, 0, 0, 0>>]

\* randomBetween(0, 1) > 0.5 of each green asset, in hundredths
PortfolioEsgDraws == Near(randomBetween(0, 100, 1), {50})

\* requested amount in cents
Amounts == {50000, 500000, 1234567, 5000000}

Purposes == {"business", "renewable"}

LoanDefault ==
    [mobileScore |-> 50 * Res, greenScore |-> 40 * Res,
     socialScore |-> 55 * Res, confidence |-> 750]

LoanSocialEnds == Near(randomBetween(55, 85, Res), {})

LoanMobileEnds == Near(randomBetween(50, 95, Res), {})

LoanGreenSamples == Near(randomBetween(40, 90, Res), {71 * Res})

GreenwashingDefault ==
    [envScore |-> 50, emissions |-> 500, renewablePct |-> 10, trend |-> 0,
     riskDraw |-> 0, confidence |-> 750]

GreenEnvScores == Near(randomInt(50, 95), {70, 75, 80})

GreenEmissions == Near(randomInt(500, 4000), {3000})

GreenRenewables == Near(randomInt(10, 70), {20})

\* trend = randomBetween(-0.1, 0.1), in thousandths
GreenTrends == Near(randomBetween(-100, 100, 1), {50})

----------------------------------------------------------------------------
(* api.js: the gateway facade *)

\* axios.create({ baseURL, timeout: 10000 })
timeout == 10000

GatewayOps == {"getSystemStatus", "assessCredit", "optimizePortfolio",
               "applyMicroLoan", "checkGreenwashing"}

\* await delay(ms) of each operation's mock branch
delayMs(op) ==
    CASE op = "getSystemStatus" -> 500
      [] op = "assessCredit" -> 1500
      [] op = "optimizePortfolio" -> 2000
      [] op = "applyMicroLoan" -> 1800
      [] op = "checkGreenwashing" -> 1500

\* the fabricator each operation's mock branch returns
fabricatorOf(op) ==
    CASE op = "getSystemStatus" -> "mockSystemStatus"
      [] op = "assessCredit" -> "mockCreditAssessment"
      [] op = "optimizePortfolio" -> "mockPortfolioOptimization"
      [] op = "applyMicroLoan" -> "mockMicroLoan"
      [] op = "checkGreenwashing" -> "mockGreenwashingCheck"

\* api.get / api.post of each operation's remote branch
endpoint(op) ==
    CASE op = "getSystemStatus" ->
           [method |-> "GET", path |-> "/api/v1/system/status"]
      [] op = "assessCredit" ->
           [method |-> "POST", path |-> "/api/v1/credit/assess"]
      [] op = "optimizePortfolio" ->
           [method |-> "POST", path |-> "/api/v1/portfolio/optimize"]
      [] op = "applyMicroLoan" ->
           [method |-> "POST", path |-> "/api/v1/loan/apply"]
      [] op = "checkGreenwashing" ->
           [method |-> "POST", path |-> "/api/v1/greenwashing/check"]

DelayEvent(op) ==
    [ev |-> "delay", ms |-> delayMs(op)]

HttpEvent(op, args) ==
    [ev |-> "http", method |-> endpoint(op).method,
     path |-> endpoint(op).path, body |-> args, timeout |-> timeout]

FabricatorEvent(op) ==
    [ev |-> "fabricator", fn |-> fabricatorOf(op)]

\* a gateway in which getSystemStatus lost its USE_MOCK test and always
\* goes to the network
apiServiceStatusAlwaysRemote(op, args) ==
    IF USE_MOCK /\ op # "getSystemStatus"
    THEN [state |-> "delay", trace |-> <<DelayEvent(op)>>]
    ELSE [state |-> "http", trace |-> <<HttpEvent(op, args)>>]

\* an operation of apiService up to its first await: in mock mode the
\* delay's timer is started, otherwise the request is sent.  trace is what
\* the call has done so far.
apiService(op, args) ==
    IF USE_MOCK
    THEN [state |-> "delay", trace |-> <<DelayEvent(op)>>]
    ELSE [state |-> "http", trace |-> <<HttpEvent(op, args)>>]

\* a call as issued by component instance inst of view
NewCall(op, args, view, inst) ==
    [op |-> op, args |-> args, view |-> view, inst |-> inst,
     state |-> apiService(op, args).state,
     trace |-> apiService(op, args).trace]

\* what the mock branch returns once its delay has elapsed
fabricate(op, args, now, d) ==
    CASE op = "getSystemStatus" -> mockSystemStatus(now, d)
      [] op = "assessCredit" ->
           mockCreditAssessment(args.entity_id, args.entity_type, now, d)
      [] op = "optimizePortfolio" ->
           mockPortfolioOptimization(args.capital, args.risk_tolerance,
                                     args.target_return, now, d)
      [] op = "applyMicroLoan" ->
           mockMicroLoan(args.applicant_id, args.amount, args.purpose,
                         args.additionalData, now, d)
      [] op = "checkGreenwashing" ->
           mockGreenwashingCheck(args.company_id, now, d)

InFlight(call) == call.state \in {"delay", "http"}

----------------------------------------------------------------------------
(* The components: App, Dashboard and the four form views *)

Views == {"dashboard", "credit", "portfolio", "loan", "greenwashing"}

Forms == Views \ {"dashboard"}

\* the gateway operation each view calls
opOf(view) ==
    CASE view = "dashboard" -> "getSystemStatus"
      [] view = "credit" -> "assessCredit"
      [] view = "portfolio" -> "optimizePortfolio"
      [] view = "loan" -> "applyMicroLoan"
      [] view = "greenwashing" -> "checkGreenwashing"

\* the fallback of each handleSubmit's catch: err.response?.data?.detail || ...
fallbackError(view) ==
    CASE view = "credit" -> "assessment_failed: connection_error"
      [] view = "portfolio" -> "optimization_failed"
      [] view = "loan" -> "loan_processing_failed"
      [] view = "greenwashing" -> "analysis_failed"

\* the request a form sends: its fields at the time of the submit.  The id
\* inputs are required, so never empty; money in cents.
FormArgs(view) ==
    CASE view = "credit" ->
           [entity_id : {"ACME"}, entity_type : {"company"}]
      [] view = "portfolio" ->
           [capital : {10000000}, risk_tolerance : {"moderate"},
            target_return : {8}]
      [] view = "loan" ->
           [applicant_id : {"u-17"}, amount : {500000},
            purpose : {"business"}, additionalData : {"alternative_data"}]
      [] view = "greenwashing" ->
           [company_id : {"ACME"}]

NoArgs == [none |-> TRUE]

\* the draws a mock call may make, two or three per fabricator
MockDraws(op) ==
    CASE op = "getSystemStatus" -> {[queue_size |-> 0, cache_size |-> 50]}
      [] op = "assessCredit" ->
           {CreditDefault,
            [CreditDefault EXCEPT !.traditionalScore = 90 * Res,
                                  !.carbonScore = 85 * Res]}
      [] op = "optimizePortfolio" -> {PortfolioDefault}
      [] op = "applyMicroLoan" ->
           {LoanDefault,
            [LoanDefault EXCEPT !.mobileScore = 80 * Res,
                                !.greenScore = 75 * Res]}
      [] op = "checkGreenwashing" ->
           {GreenwashingDefault,
            [GreenwashingDefault EXCEPT !.envScore = 90, !.emissions = 3500,
                                        !.trend = 80, !.riskDraw = 19]}

\* the axios errors a request can end in: no response at all (network
\* failure, the 10 s timeout) or a non-2xx response, whose body may carry a
\* detail
HttpFailures ==
    {[ok |-> FALSE, response |-> Null, code |-> c] :
        c \in {"ERR_NETWORK", "ECONNABORTED"}}
    \cup {[ok |-> FALSE, response |-> [status |-> 500, data |-> dt]] :
            dt \in {[detail |-> "server_detail"], [detail |-> ""],
                    [message |-> "no detail"]}}

\* what a remote call can come back with: a 2xx response with its body, or
\* an axios error: no response at all (network failure, timeout) or a
\* non-2xx response whose body may carry a detail
HttpOutcomes(op, args) ==
    {[ok |-> TRUE, data |-> fabricate(op, args, 0, d)] :
        d \in {CHOOSE d \in MockDraws(op) : TRUE}}
    \cup {[ok |-> TRUE, data |-> [status |-> "error"]]}
    \cup HttpFailures

\* a catch that ignores what the server said
errorMessageNoDetail(err, fallback) == fallback

\* err.response?.data?.detail || fallback
errorMessage(err, fallback) ==
    IF err.response = Null THEN fallback
    ELSE IF "detail" \notin DOMAIN err.response.data THEN fallback
    ELSE IF err.response.data.detail = "" THEN fallback
    ELSE err.response.data.detail

\* the record fetchSystemStatus falls back to in its catch
DefaultSystemStatus(now) ==
    [status |-> "operational",
     timestamp |-> now,
     agents |-> [data_collection |-> "active",
                 risk_assessment |-> "active",
                 portfolio_optimization |-> "active",
                 inclusion |-> "active"]]

\* useState({ totalAssessments: 12847, ... })
InitialStats ==
    [totalAssessments |-> 12847, carbonReduced |-> 523000,
     greenInvestments |-> 2100000000, loansApproved |-> 8934]

\* the state a component has when it is mounted: useState's initial values
Mounted(view) ==
    [loading |-> view = "dashboard", result |-> Null, error |-> Null,
     systemStatus |-> Null,
     stats |-> IF view = "dashboard" THEN InitialStats ELSE Null]

\* the Dashboard's effect: const interval = setInterval(..., 5000), and its
\* cleanup: clearInterval(interval).  inst is the instance that set the
\* timer, fired the number of its ticks so far.
setInterval(view, inst) ==
    IF view = "dashboard" THEN [inst |-> inst, fired |-> 0] ELSE Null

Init ==
    /\ USE_MOCK \in BOOLEAN
    /\ activeView = "dashboard"
    /\ instance = 1
    /\ loading = Mounted("dashboard").loading
    /\ result = Null
    /\ error = Null
    /\ systemStatus = Null
    /\ calls = <<NewCall("getSystemStatus", NoArgs, "dashboard", 1)>>
    /\ stats = Mounted("dashboard").stats
    /\ interval = setInterval("dashboard", 1)
    /\ lastCall = Null
    /\ response = Null

\* a nav button's onClick: setActiveView(view).  The view shown before is
\* unmounted and a new instance of the chosen component is mounted; a new
\* Dashboard runs its effect, which calls fetchSystemStatus.  Setting the
\* view already shown changes nothing.
setActiveView(view) ==
    /\ view # activeView
    /\ instance < MaxMounts
    /\ view = "dashboard" => Len(calls) < MaxCalls
    /\ activeView' = view
    /\ instance' = instance + 1
    /\ loading' = Mounted(view).loading
    /\ result' = Mounted(view).result
    /\ error' = Mounted(view).error
    /\ systemStatus' = Mounted(view).systemStatus
    /\ calls' = IF view = "dashboard"
                THEN Append(calls, NewCall("getSystemStatus", NoArgs,
                                           "dashboard", instance + 1))
                ELSE calls
    /\ stats' = Mounted(view).stats
    /\ interval' = setInterval(view, instance + 1)
    /\ UNCHANGED <<USE_MOCK, lastCall, response>>

\* a handler that leaves the last error on display (no setError(null))
onSubmitKeepError(view, args) ==
    /\ activeView = view
    /\ view \in Forms
    /\ Len(calls) < MaxCalls
    /\ calls' = Append(calls, NewCall(opOf(view), args, view, instance))
    /\ loading' = TRUE
    /\ result' = Null
    /\ UNCHANGED <<stats, interval>>
    /\ UNCHANGED <<USE_MOCK, activeView, instance, systemStatus, lastCall,
                   response, error>>

\* the handler of the form's submit event, up to the await of the gateway
\* call, with the form's fields args
onSubmit(view, args) ==
    /\ activeView = view
    /\ view \in Forms
    /\ Len(calls) < MaxCalls
    /\ calls' = Append(calls, NewCall(opOf(view), args, view, instance))
    /\ loading' = TRUE
    /\ error' = Null
    /\ result' = Null
    /\ UNCHANGED <<stats, interval>>
    /\ UNCHANGED <<USE_MOCK, activeView, instance, systemStatus, lastCall,
                   response>>

\* the user submits the form.  The submit button is disabled while loading.
handleSubmit(view) ==
    /\ ~loading
    /\ \E args \in FormArgs(view) : onSubmit(view, args)

\* a form's settlement that leaves loading set when the call rejected
\* (setLoading(false) at the end of the try instead of in a finally)
formSettledNoFinally(view, cur, outcome) ==
    IF outcome.ok
    THEN [cur EXCEPT !.result = outcome.data, !.loading = FALSE]
    ELSE [cur EXCEPT !.error =
                        [message |-> errorMessage(outcome, fallbackError(view))]]

\* handleSubmit after its await: setResult(data) on resolve, setError(...)
\* in the catch, setLoading(false) in the finally.  cur is the component's
\* state, the value is its state afterwards.
formSettled(view, cur, outcome) ==
    IF outcome.ok
    THEN [cur EXCEPT !.result = outcome.data, !.loading = FALSE]
    ELSE [cur EXCEPT !.error =
                        [message |-> errorMessage(outcome, fallbackError(view))],
                     !.loading = FALSE]

\* a fetch whose catch sets no record
fetchSettledNoFallback(cur, outcome, now) ==
    IF outcome.ok
    THEN [cur EXCEPT !.systemStatus = outcome.data, !.loading = FALSE]
    ELSE [cur EXCEPT !.loading = FALSE]

\* fetchSystemStatus after its await
fetchSettled(cur, outcome, now) ==
    IF outcome.ok
    THEN [cur EXCEPT !.systemStatus = outcome.data, !.loading = FALSE]
    ELSE [cur EXCEPT !.systemStatus = DefaultSystemStatus(now),
                     !.loading = FALSE]

\* the loan fields the loan_terms card formats
LoanTermsShown(res) ==
    [f \in {"approved_amount", "interest_rate", "loan_term_months",
            "monthly_payment", "first_payment_date", "total_repayment",
            "total_interest"} |-> res.loan_terms[f]]

\* a render whose cards hang on result.status alone
renderMicroLoanUngated(err, res) ==
    LET shown == res # Null /\ "status" \in DOMAIN res
                 /\ res.status = "success"
        special == shown /\ Len(res.loan_terms.special_terms) > 0
    IN  [error |-> err,
         status_line |->
           IF ~shown THEN Null
           ELSE IF res.approval_status
           THEN "[APPROVED] loan application has been approved"
           ELSE "[PENDING] application requires additional review",
         cards |->
           (IF shown THEN <<"application_status">> ELSE <<>>)
           \o (IF shown
               THEN <<"alternative_credit_assessment", "loan_terms">>
               ELSE <<>>)
           \o (IF special THEN <<"special_terms">> ELSE <<>>),
         loan_terms |-> IF shown THEN LoanTermsShown(res) ELSE Null,
         special_terms |->
           IF special THEN res.loan_terms.special_terms ELSE <<>>]

\* what MicroLoan renders below its form from its error and result states:
\* the error line, the status line, the cards in order, and the loan
\* fields and special terms it reads to fill them
renderMicroLoan(err, res) ==
    LET shown == res # Null /\ "status" \in DOMAIN res
                 /\ res.status = "success"
        approved == shown /\ res.approval_status
        special == approved /\ Len(res.loan_terms.special_terms) > 0
    IN  [error |-> err,
         status_line |->
           IF ~shown THEN Null
           ELSE IF approved
           THEN "[APPROVED] loan application has been approved"
           ELSE "[PENDING] application requires additional review",
         cards |->
           (IF shown THEN <<"application_status">> ELSE <<>>)
           \o (IF approved
               THEN <<"alternative_credit_assessment", "loan_terms">>
               ELSE <<>>)
           \o (IF special THEN <<"special_terms">> ELSE <<>>),
         loan_terms |-> IF approved THEN LoanTermsShown(res) ELSE Null,
         special_terms |->
           IF special THEN res.loan_terms.special_terms ELSE <<>>]

Component ==
    [loading |-> loading, result |-> result, error |-> error,
     systemStatus |-> systemStatus]

\* a continuation with a request-generation guard: only the call the
\* instance made last writes its state
ContinueLatestOnly(i, outcome) ==
    LET call == calls[i]
        latest == \A j \in DOMAIN calls : calls[j].inst = call.inst => j <= i
        after == IF call.inst # instance \/ ~latest THEN Component
                 ELSE IF call.view = "dashboard"
                 THEN fetchSettled(Component, outcome, 0)
                 ELSE formSettled(call.view, Component, outcome)
    IN  /\ loading' = after.loading
        /\ result' = after.result
        /\ error' = after.error
        /\ systemStatus' = after.systemStatus

\* the continuation of the component that awaited call i.  State updates of
\* an instance that is no longer mounted have no effect.
Continue(i, outcome) ==
    LET call == calls[i]
        after == IF call.inst # instance THEN Component
                 ELSE IF call.view = "dashboard"
                 THEN fetchSettled(Component, outcome, 0)
                 ELSE formSettled(call.view, Component, outcome)
    IN  /\ loading' = after.loading
        /\ result' = after.result
        /\ error' = after.error
        /\ systemStatus' = after.systemStatus

\* mock branch: the delay's timer fires, the fabricator is called and its
\* value returned to the awaiting component.  A timer set earlier for a
\* delay no longer fires first.
delayElapsed(i) ==
    /\ calls[i].state = "delay"
    /\ \A j \in 1 .. (i - 1) :
         calls[j].state = "delay" => delayMs(calls[j].op) > delayMs(calls[i].op)
    /\ \E d \in MockDraws(calls[i].op) :
         Continue(i, [ok |-> TRUE,
                      data |-> fabricate(calls[i].op, calls[i].args, 0, d)])
    /\ calls' = [calls EXCEPT
                   ![i].state = "resolved",
                   ![i].trace = Append(@, FabricatorEvent(calls[i].op))]
    /\ UNCHANGED <<stats, interval>>
    /\ UNCHANGED <<USE_MOCK, activeView, instance, lastCall, response>>

\* a gateway that sends the request again when it failed
httpSettledRetry(i) ==
    /\ calls[i].state = "http"
    /\ \E outcome \in HttpOutcomes(calls[i].op, calls[i].args) :
         IF outcome.ok
         THEN /\ Continue(i, outcome)
              /\ calls' = [calls EXCEPT ![i].state = "resolved"]
         ELSE /\ Len(calls[i].trace) < 2
              /\ calls' = [calls EXCEPT
                             ![i].trace =
                                Append(@, HttpEvent(calls[i].op, calls[i].args))]
              /\ UNCHANGED <<loading, result, error, systemStatus>>
    /\ UNCHANGED <<stats, interval>>
    /\ UNCHANGED <<USE_MOCK, activeView, instance, lastCall, response>>

\* remote branch: the request completes; response.data is returned on a
\* 2xx response, any other outcome rejects the call
httpSettled(i) ==
    /\ calls[i].state = "http"
    /\ \E outcome \in HttpOutcomes(calls[i].op, calls[i].args) :
         /\ Continue(i, outcome)
         /\ calls' = [calls EXCEPT
                        ![i].state = IF outcome.ok THEN "resolved"
                                     ELSE "rejected"]
         /\ response' = outcome
    /\ UNCHANGED <<stats, interval>>
    /\ UNCHANGED <<USE_MOCK, activeView, instance, lastCall>>

\* the stats with every counter moved by a tick
statsTickAll(prev, a, c) ==
    [prev EXCEPT !.totalAssessments = @ + a, !.carbonReduced = @ + c,
                 !.loansApproved = @ + a]

\* setStats(prev => ({...prev, totalAssessments: prev.totalAssessments + a,
\* carbonReduced: prev.carbonReduced + c}))
statsTick(prev, a, c) ==
    [prev EXCEPT !.totalAssessments = @ + a, !.carbonReduced = @ + c]

\* Math.floor(Math.random() * 3)
TickAssessments == randomInt(0, 3)

\* Math.floor(Math.random() * 100), at its two ends
TickCarbon == Near(randomInt(0, 100), {})

\* the timer's callback, every 5 seconds while the timer is set
tick ==
    /\ interval # Null
    /\ interval.fired < MaxTicks
    /\ \E a \in TickAssessments, c \in TickCarbon :
         stats' = statsTick(stats, a, c)
    /\ interval' = [interval EXCEPT !.fired = @ + 1]
    /\ UNCHANGED <<USE_MOCK, activeView, instance, loading, result, error,
                   systemStatus, calls, lastCall, response>>

Next ==
    \/ \E view \in Views : setActiveView(view)
    \/ \E view \in Forms : handleSubmit(view)
    \/ \E i \in DOMAIN calls : delayElapsed(i)
    \/ \E i \in DOMAIN calls : httpSettled(i)

Spec == Init /\ [][Next]_vars

\* the steps of delayElapsed and httpSettled, told by what they do to
\* calls: a call in flight resolves or rejects, the mock one after its
\* fabricator was called
Settle ==
    \E i \in DOMAIN calls :
      /\ InFlight(calls[i])
      /\ \E st \in {"resolved", "rejected"} :
           \E tr \in {calls[i].trace,
                      Append(calls[i].trace, FabricatorEvent(calls[i].op))} :
             calls' = [calls EXCEPT ![i].state = st, ![i].trace = tr]

\* every call settles: a delay's timer fires, and a request ends in a
\* response, a network error or the 10 s timeout
SpecLive == Spec /\ WF_calls(Settle)

\* the program with the Dashboard's timer ticking.  Next leaves the ticks
\* out: they change stats and the timer's count and nothing else.
NextDash ==
    \/ Next
    \/ tick

SpecDash == Init /\ [][NextDash]_vars

----------------------------------------------------------------------------
(* One mounted form and its handler on their own: submit events reach the  *)
(* handler whatever the button's state, as a submit event dispatched at    *)
(* the form does                                                           *)

\* the fields of two submissions that differ in what the response echoes
ResubmitArgs(view) ==
    CASE view = "credit" ->
           [entity_id : EntityIds, entity_type : {"company"}]
      [] view = "portfolio" ->
           [capital : {100, 10000000}, risk_tolerance : {"moderate"},
            target_return : {8}]
      [] view = "loan" ->
           [applicant_id : EntityIds, amount : {500000},
            purpose : {"business"}, additionalData : {"alternative_data"}]
      [] view = "greenwashing" ->
           [company_id : EntityIds]

InitForm ==
    /\ USE_MOCK \in BOOLEAN
    /\ activeView \in Forms
    /\ instance = 1
    /\ loading = Mounted(activeView).loading
    /\ result = Null
    /\ error = Null
    /\ systemStatus = Null
    /\ calls = <<>>
    /\ stats = Mounted(activeView).stats
    /\ interval = setInterval(activeView, 1)
    /\ lastCall = Null
    /\ response = Null

NextForm ==
    \/ \E view \in Forms : \E args \in ResubmitArgs(view) : onSubmit(view, args)
    \/ \E i \in DOMAIN calls : delayElapsed(i)
    \/ \E i \in DOMAIN calls : httpSettled(i)

SpecForm == InitForm /\ [][NextForm]_vars

----------------------------------------------------------------------------
(* The fabricators on their own: one call with given arguments and draws *)

FabCall(op, args, now, d) ==
    [op |-> op, args |-> args, now |-> now, d |-> d]

CreditArgsDefault == [entity_id |-> "ACME", entity_type |-> "company"]

PortfolioArgsDefault ==
    [capital |-> 10000000, risk_tolerance |-> "moderate", target_return |-> 8]

LoanArgsDefault ==
    [applicant_id |-> "u-17", amount |-> 500000, purpose |-> "business",
     additionalData |-> "alternative_data"]

GreenwashingArgsDefault == [company_id |-> "ACME"]

StatusCalls ==
    \E n \in Times, d \in StatusDraws :
      lastCall = FabCall("getSystemStatus", NoArgs, n, d)

CreditCalls ==
    \/ \E t \in randomBetween(45, 95, Res), c \in randomBetween(40, 92, Res) :
         lastCall = FabCall("assessCredit", CreditArgsDefault, 0,
             [CreditDefault EXCEPT !.traditionalScore = t, !.carbonScore = c])
    \/ \E e \in randomBetween(50, 90, Res) :
         lastCall = FabCall("assessCredit", CreditArgsDefault, 0,
             [CreditDefault EXCEPT !.esgScore = e])
    \/ \E e \in CreditEmissions, t \in CreditTrends, r \in CreditRenewables :
         lastCall = FabCall("assessCredit", CreditArgsDefault, 0,
             [CreditDefault EXCEPT !.emissions = e, !.trend = t,
                                   !.renewablePct = r])
    \/ \E l \in CreditLeverages, h \in CreditDefaultHistories,
          k \in randomInt(2, 4) :
         lastCall = FabCall("assessCredit", CreditArgsDefault, 0,
             [CreditDefault EXCEPT !.leverage = l, !.defaultHistory = h,
                                   !.sdg = k])
    \/ \E a \in [entity_id : EntityIds, entity_type : EntityTypes],
          n \in Times :
         lastCall = FabCall("assessCredit", a, n, CreditDefault)

PortfolioCalls ==
    \/ \E a \in [capital : Capitals, risk_tolerance : RiskTiers,
                 target_return : TargetReturns],
          n \in Times :
         lastCall = FabCall("optimizePortfolio", a, n, PortfolioDefault)
    \/ \E t \in RiskTiers, a \in {50, 51}, b \in {50, 51}, c \in {50, 51},
          e \in PortfolioEsgDraws :
         lastCall = FabCall("optimizePortfolio",
             [PortfolioArgsDefault EXCEPT !.risk_tolerance = t], 0,
             [esg |-> <<a, b, c, e>>])

LoanCalls ==
    \/ \E m \in randomBetween(50, 95, Res), g \in randomBetween(40, 90, Res),
          s \in LoanSocialEnds :
         lastCall = FabCall("applyMicroLoan", LoanArgsDefault, 0,
             [LoanDefault EXCEPT !.mobileScore = m, !.greenScore = g,
                                 !.socialScore = s])
    \/ \E s \in randomBetween(55, 85, Res) :
         lastCall = FabCall("applyMicroLoan", LoanArgsDefault, 0,
             [LoanDefault EXCEPT !.socialScore = s])
    \/ \E c \in randomBetween(750, 920, 1) :
         lastCall = FabCall("applyMicroLoan", LoanArgsDefault, 0,
             [LoanDefault EXCEPT !.confidence = c])
    \/ \E a \in [applicant_id : EntityIds, amount : Amounts,
                 purpose : Purposes, additionalData : {"alternative_data"}],
          n \in Times, m \in LoanMobileEnds, g \in LoanGreenSamples :
         lastCall = FabCall("applyMicroLoan", a, n,
             [LoanDefault EXCEPT !.mobileScore = m, !.greenScore = g])

GreenwashingCalls ==
    \/ \E v \in GreenEnvScores, e \in GreenEmissions, r \in GreenRenewables,
          t \in GreenTrends, k \in randomInt(0, 20) :
         lastCall = FabCall("checkGreenwashing", GreenwashingArgsDefault, 0,
             [GreenwashingDefault EXCEPT !.envScore = v, !.emissions = e,
                                         !.renewablePct = r, !.trend = t,
                                         !.riskDraw = k])
    \/ \E c \in randomBetween(750, 950, 1) :
         lastCall = FabCall("checkGreenwashing", GreenwashingArgsDefault, 0,
             [GreenwashingDefault EXCEPT !.confidence = c])
    \/ \E c \in EntityIds, n \in Times :
         lastCall = FabCall("checkGreenwashing", [company_id |-> c], n,
                            GreenwashingDefault)

\* one fabricator call about to be made: lastCall is the fabricator's
\* operation, its arguments, the time and the draws it will make
\* footprints to apply the timeline expression of lines 170 and 178 to:
\* those of the three green tables (49, 59 and 64 tons) and the values
\* around its two thresholds
Footprints == {0, 49, 59, 64, 99, 100, 101, 299, 300, 301, 1000}

TimelineCalls ==
    \E f \in Footprints :
      lastCall = FabCall("netZeroTimeline", [carbonFootprint |-> f], 0, NoArgs)

\* risk indexes to apply the level expression of line 281 and the
\* recommendation ifs of lines 283-294 to: every value Math.min(100, ...)
\* can return
RiskIndexes == 0 .. 100

LevelCalls ==
    \E k \in RiskIndexes :
      lastCall = FabCall("riskLevel", [riskIndex |-> k], 0, NoArgs)

InitFab ==
    /\ USE_MOCK = TRUE
    /\ activeView = "dashboard"
    /\ instance = 1
    /\ loading = Mounted("dashboard").loading
    /\ result = Null
    /\ error = Null
    /\ systemStatus = Null
    /\ calls = <<>>
    /\ stats = Null
    /\ interval = Null
    /\ \/ StatusCalls
       \/ CreditCalls
       \/ PortfolioCalls
       \/ LoanCalls
       \/ GreenwashingCalls
       \/ TimelineCalls
       \/ LevelCalls
    /\ response = Null

\* the fabricator of op is called with lastCall's arguments and draws
Invoke(op) ==
    /\ response = Null
    /\ lastCall.op = op
    /\ response' = fabricate(op, lastCall.args, lastCall.now, lastCall.d)
    /\ UNCHANGED <<stats, interval>>
    /\ UNCHANGED <<lastCall, USE_MOCK, activeView, instance, loading, result,
                   error, systemStatus, calls>>

\* the timeline expression is evaluated on lastCall's footprint
Timeline ==
    /\ response = Null
    /\ lastCall.op = "netZeroTimeline"
    /\ response' = [net_zero_timeline_years |->
                      netZeroTimeline(lastCall.args.carbonFootprint)]
    /\ UNCHANGED <<stats, interval>>
    /\ UNCHANGED <<lastCall, USE_MOCK, activeView, instance, loading, result,
                   error, systemStatus, calls>>

\* the level expression and the recommendation ifs are evaluated on
\* lastCall's risk index
Level ==
    /\ response = Null
    /\ lastCall.op = "riskLevel"
    /\ response' = [risk_level |-> riskLevel(lastCall.args.riskIndex),
                    recommendations |->
                      greenwashingRecommendations(lastCall.args.riskIndex)]
    /\ UNCHANGED <<stats, interval>>
    /\ UNCHANGED <<lastCall, USE_MOCK, activeView, instance, loading, result,
                   error, systemStatus, calls>>

NextFab ==
    \/ \E op \in GatewayOps : Invoke(op)
    \/ Timeline
    \/ Level

SpecFab == InitFab /\ [][NextFab]_vars

----------------------------------------------------------------------------
(* Claims about the fabricators, checked under SpecFab *)

\* the fabricator of op has been called and response is what it returned
Made(op) == response # Null /\ lastCall.op = op

\* 10 * Res times the combined credit score of the call's draws
CreditCombined ==
    6 * lastCall.d.traditionalScore + 4 * lastCall.d.carbonScore

\* 10 * Res times the composite loan score of the call's draws
LoanComposite ==
    5 * lastCall.d.mobileScore + 3 * lastCall.d.greenScore
    + 2 * lastCall.d.socialScore

\* C1: the rating and the interest-rate adjustment of a credit response are
\* those of the band of 0.6*traditional + 0.4*carbon: >= 80 AAA/-0.02,
\* >= 70 AA/-0.01, >= 60 A/0, >= 50 BBB/+0.01, below 50 BB/+0.02; the
\* boundary values 80, 70, 60 and 50 fall in the upper band.
C1_RatingBands ==
    Made("assessCredit") =>
      LET x == CreditCombined
          r == response.credit_rating
      IN  /\ x >= 800 * Res =>
               r.rating = "AAA" /\ r.interest_rate_adjustment = -2
          /\ x >= 700 * Res /\ x < 800 * Res =>
               r.rating = "AA" /\ r.interest_rate_adjustment = -1
          /\ x >= 600 * Res /\ x < 700 * Res =>
               r.rating = "A" /\ r.interest_rate_adjustment = 0
          /\ x >= 500 * Res /\ x < 600 * Res =>
               r.rating = "BBB" /\ r.interest_rate_adjustment = 1
          /\ x < 500 * Res =>
               r.rating = "BB" /\ r.interest_rate_adjustment = 2

\* a credit response whose combined score is exactly 80 and is rated AAA
C1_Witness ==
    /\ Made("assessCredit")
    /\ CreditCombined = 800 * Res
    /\ response.credit_rating.rating = "AAA"

\* C2: a loan response is approved (approval_status and assessment.approved)
\* exactly when 0.5*mobile + 0.3*green + 0.2*social >= 55.
C2_ApprovalGate ==
    Made("applyMicroLoan") =>
      /\ response.approval_status = (LoanComposite >= 550 * Res)
      /\ response.assessment.approved = (LoanComposite >= 550 * Res)

\* a loan response whose composite is exactly 55.0, approved
C2_Witness ==
    /\ Made("applyMicroLoan")
    /\ LoanComposite = 550 * Res
    /\ response.approval_status = TRUE

\* a loan response whose composite is 54.9, not approved
C2_WitnessBelow ==
    /\ Made("applyMicroLoan")
    /\ LoanComposite = 549 * Res
    /\ response.approval_status = FALSE

\* C3: a loan response whose composite is below 55 carries
\* approval_status = false and no loan terms.
C3_RejectedHasNoLoanTerms ==
    Made("applyMicroLoan") /\ LoanComposite < 550 * Res =>
      /\ response.approval_status = FALSE
      /\ "loan_terms" \notin DOMAIN response

\* a score reported in hundredths lies in [0, 100]
ScoreInRange(x) == 0 <= x /\ x <= 100 * 100

\* C4: every score of every fabricated response lies in [0, 100]: the
\* credit traditional, carbon, ESG and combined scores, the loan mobile,
\* green, social and composite scores, and the greenwashing risk index.
C4_ScoresInRange ==
    /\ Made("assessCredit") =>
         /\ ScoreInRange(response.credit_rating.traditional_score)
         /\ ScoreInRange(response.credit_rating.carbon_score)
         /\ ScoreInRange(response.credit_rating.combined_score)
         /\ ScoreInRange(response.carbon_score)
         /\ ScoreInRange(response.risk_analysis.traditional_risk.risk_score)
         /\ ScoreInRange(response.risk_analysis.carbon_risk.carbon_risk_score)
         /\ ScoreInRange(response.risk_analysis.esg_risk.esg_risk_score)
         /\ ScoreInRange(response.risk_analysis.composite_risk_score)
    /\ Made("applyMicroLoan") =>
         /\ ScoreInRange(response.assessment.mobile_payment_score)
         /\ ScoreInRange(response.assessment.green_activity_score)
         /\ ScoreInRange(response.assessment.social_score)
         /\ ScoreInRange(response.assessment.alternative_credit_score)
    /\ Made("checkGreenwashing") =>
         /\ 0 <= response.greenwashing_risk_index
         /\ response.greenwashing_risk_index <= 100

\* a loan response made with the highest mobile, green and social draws
C4_Witness ==
    /\ Made("applyMicroLoan")
    /\ lastCall.d.mobileScore = 95 * Res - 1
    /\ lastCall.d.greenScore = 90 * Res - 1
    /\ lastCall.d.socialScore = 85 * Res - 1
    /\ response.assessment.alternative_credit_score > 90 * 100

\* the allocations of a list of assets, added up (in percent)
AllocationSum(assets) ==
    SumOver([i \in 1 .. Len(assets) |-> assets[i].allocation], Len(assets))

\* C5: in every portfolio response, for each risk tier, the allocations of
\* the traditional portfolio and of the green portfolio each sum to 1.0.
C5_AllocationsSumToOne ==
    Made("optimizePortfolio") =>
      /\ AllocationSum(response.traditional_portfolio.assets) = 100
      /\ AllocationSum(response.green_portfolio.assets) = 100

\* a response of the aggressive tier, both portfolios of four assets
C5_Witness ==
    /\ Made("optimizePortfolio")
    /\ lastCall.args.risk_tolerance = "aggressive"
    /\ Len(response.green_portfolio.assets) = 4
    /\ AllocationSum(response.green_portfolio.assets) = 100

\* the points of the rules that fire on the draws of a greenwashing call
GreenRiskFactors ==
    LET d == lastCall.d
    IN  (IF d.envScore > 80 /\ d.emissions > 3000 THEN 2 ELSE 0)
        + (IF d.envScore > 70 /\ d.renewablePct < 20 THEN 3 ELSE 0)
        + (IF d.trend > 50 /\ d.envScore > 75 THEN 3 ELSE 0)

\* C6: the greenwashing risk index is min(100, riskFactors*15 + d) with d
\* an integer in 0..19, hence within 0..100 whichever rules fire.
C6_RiskIndexClamped ==
    Made("checkGreenwashing") =>
      LET raw == GreenRiskFactors * 15 + lastCall.d.riskDraw
          index == response.greenwashing_risk_index
      IN  /\ lastCall.d.riskDraw \in 0 .. 19
          /\ raw <= 100 => index = raw
          /\ raw > 100 => index = 100
          /\ index \in 0 .. 100

\* all three rules fire (riskFactors = 8) and the index is clamped to 100
C6_Witness ==
    /\ Made("checkGreenwashing")
    /\ GreenRiskFactors = 8
    /\ Len(response.anomalies) = 3
    /\ response.greenwashing_risk_index = 100

----------------------------------------------------------------------------
(* Claims about the gateway and the views, checked under Spec and SpecLive *)

HttpEvents(call) == SelectSeq(call.trace, LAMBDA e : e.ev = "http")

FabricatorEvents(call) == SelectSeq(call.trace, LAMBDA e : e.ev = "fabricator")

\* the fabricator and the view of each gateway operation, as api.js and
\* the components pair them
C7_FabricatorName(op) ==
    CASE op = "getSystemStatus" -> "mockSystemStatus"
      [] op = "assessCredit" -> "mockCreditAssessment"
      [] op = "optimizePortfolio" -> "mockPortfolioOptimization"
      [] op = "applyMicroLoan" -> "mockMicroLoan"
      [] op = "checkGreenwashing" -> "mockGreenwashingCheck"

C7_Paths ==
    \A i \in DOMAIN calls :
      LET call == calls[i]
          tr == call.trace
      IN  IF USE_MOCK
          THEN /\ HttpEvents(call) = <<>>
               /\ tr[1].ev = "delay"
               /\ Len(tr) <= 2
               /\ call.state = "resolved" <=> Len(tr) = 2
               /\ Len(tr) = 2 =>
                    tr[2] = [ev |-> "fabricator",
                             fn |-> C7_FabricatorName(call.op)]
               /\ call.state # "rejected"
          ELSE /\ FabricatorEvents(call) = <<>>
               /\ Len(tr) = 1
               /\ tr[1].ev = "http"

\* in mock mode the result a form shows is an output of its fabricator
C7_MockResult ==
    USE_MOCK /\ activeView \in Forms /\ result # Null =>
      \E args \in FormArgs(activeView), d \in MockDraws(opOf(activeView)) :
        result = fabricate(opOf(activeView), args, 0, d)

\* C7: every gateway call takes the path its mode fixes.  In mock mode it
\* awaits its delay, then calls the matching fabricator and returns its
\* output, and sends no HTTP request; with a base address configured it
\* sends the request and calls no fabricator.  The mode is one for all
\* operations and never changes.
C7_OnePathPerMode ==
    /\ [](C7_Paths /\ C7_MockResult)
    /\ [][USE_MOCK' = USE_MOCK]_vars

\* mock mode: a form's call has awaited its delay, called the fabricator
\* and the form shows the fabricated response
C7_Witness ==
    /\ USE_MOCK
    /\ activeView \in Forms
    /\ result # Null
    /\ \E i \in DOMAIN calls :
         /\ calls[i].inst = instance
         /\ calls[i].state = "resolved"
         /\ Len(calls[i].trace) = 2

C8_Endpoint(op) ==
    CASE op = "getSystemStatus" -> <<"GET", "/api/v1/system/status">>
      [] op = "assessCredit" -> <<"POST", "/api/v1/credit/assess">>
      [] op = "optimizePortfolio" -> <<"POST", "/api/v1/portfolio/optimize">>
      [] op = "applyMicroLoan" -> <<"POST", "/api/v1/loan/apply">>
      [] op = "checkGreenwashing" -> <<"POST", "/api/v1/greenwashing/check">>

C8_OneRequest ==
    ~USE_MOCK =>
      \A i \in DOMAIN calls :
        LET reqs == HttpEvents(calls[i])
        IN  /\ Len(reqs) = 1
            /\ <<reqs[1].method, reqs[1].path>> = C8_Endpoint(calls[i].op)

\* a call whose request failed rejects at once: nothing is sent again, and
\* the form that awaited it gets its error
C8_FailurePropagates ==
    \A i \in DOMAIN calls :
      (calls[i].state = "http" /\ calls'[i] # calls[i]) =>
        /\ calls'[i].state \in {"resolved", "rejected"}
        /\ calls'[i].trace = calls[i].trace
        /\ (calls'[i].state = "rejected" /\ calls[i].inst = instance
            /\ calls[i].view \in Forms) => error' # Null

\* C8: in remote mode every gateway call makes exactly one HTTP request, GET
\* /api/v1/system/status for getSystemStatus and POST to its own path for
\* the other four; a network error or non-2xx response rejects the call,
\* with no retry.
C8_SingleAttempt ==
    /\ []C8_OneRequest
    /\ [][C8_FailurePropagates]_vars

\* remote mode: a form's call was rejected after its one request, and the
\* form shows an error
C8_Witness ==
    /\ ~USE_MOCK
    /\ activeView \in Forms
    /\ error # Null
    /\ \E i \in DOMAIN calls :
         /\ calls[i].inst = instance
         /\ calls[i].state = "rejected"
         /\ Len(HttpEvents(calls[i])) = 1

\* the calls made for view that have not settled
Outstanding(view) ==
    {i \in DOMAIN calls : calls[i].view = view /\ InFlight(calls[i])}

\* C9: at most one gateway call made for a view is outstanding at any time.
C9_OneOutstandingPerView ==
    \A view \in Views : Cardinality(Outstanding(view)) <= 1

\* the calls of the mounted component that have not settled
OwnOutstanding ==
    {i \in DOMAIN calls : calls[i].inst = instance /\ InFlight(calls[i])}

\* while a call of the mounted form is in flight, loading is true
C10_LoadingWhileInFlight ==
    activeView \in Forms /\ OwnOutstanding # {} => loading = TRUE

\* a submit sets loading; the settlement of the mounted form's call, by a
\* value or by an error, clears it
C10_Steps ==
    /\ (Len(calls') > Len(calls) /\ activeView' \in Forms) => loading' = TRUE
    /\ \A i \in DOMAIN calls :
         (/\ activeView \in Forms
          /\ calls[i].inst = instance
          /\ InFlight(calls[i])
          /\ ~InFlight(calls'[i])) =>
           /\ loading' = FALSE
           /\ calls'[i].state = "rejected" => error' # Null /\ result' = Null
           /\ calls'[i].state = "resolved" => result' # Null

\* C10: a form's submit sets loading before the gateway call; loading stays
\* true while the call is in flight; and, every call settling, loading
\* becomes false again whether the call resolved or rejected, so the form
\* is enabled again after every failure.
C10_LoadingLifecycle ==
    /\ []C10_LoadingWhileInFlight
    /\ [][C10_Steps]_vars
    /\ \A k \in 1 .. MaxMounts :
         (instance = k /\ activeView \in Forms /\ loading)
           ~> ~(instance = k /\ loading)

\* a form whose call was rejected: the error is shown and the form enabled
C10_Witness ==
    /\ activeView \in Forms
    /\ ~loading
    /\ error # Null
    /\ \E i \in DOMAIN calls :
         calls[i].inst = instance /\ calls[i].state = "rejected"

\* the last call the mounted component made, 0 if it made none
OwnLast ==
    LET own == {i \in DOMAIN calls : calls[i].inst = instance}
    IN  IF own = {} THEN 0 ELSE CHOOSE i \in own : \A j \in own : j <= i

C11_Fallback(view) ==
    CASE view = "credit" -> "assessment_failed: connection_error"
      [] view = "portfolio" -> "optimization_failed"
      [] view = "loan" -> "loan_processing_failed"
      [] view = "greenwashing" -> "analysis_failed"

\* whether the rejection carries a detail of the server
C11_HasDetail(reason) ==
    /\ reason.response # Null
    /\ "detail" \in DOMAIN reason.response.data
    /\ reason.response.data.detail # ""

\* the step in which the call of the mounted form is rejected sets the
\* form's error from the rejection and leaves its result null
C11_Catch ==
    \A i \in DOMAIN calls :
      (/\ calls[i].state = "http"
       /\ calls'[i].state = "rejected"
       /\ calls[i].inst = instance
       /\ activeView \in Forms) =>
        /\ result' = Null
        /\ error' # Null
        /\ error'.message =
             IF C11_HasDetail(response')
             THEN response'.response.data.detail
             ELSE C11_Fallback(activeView)

\* after a failed submission an error is set and no result is shown
C11_AfterFailure ==
    (activeView \in Forms /\ OwnLast # 0) =>
      (calls[OwnLast].state = "rejected" => result = Null /\ error # Null)

\* C11: when the call a form made is rejected, the form's error becomes
\* the detail of the server's response if there is one and the form's own
\* fallback string otherwise, and its result stays null: after a failed
\* submission an error is set and no result is shown.
C11_ErrorOnRejection ==
    /\ []C11_AfterFailure
    /\ [][C11_Catch]_vars

\* the loan form after a 500 response with a detail: the detail is shown
C11_Witness ==
    /\ activeView = "loan"
    /\ OwnLast # 0
    /\ calls[OwnLast].state = "rejected"
    /\ response # Null
    /\ ~response.ok
    /\ C11_HasDetail(response)
    /\ error = [message |-> "server_detail"]
    /\ result = Null

\* the credit form after a network error: its fallback string is shown
C11_WitnessFallback ==
    /\ activeView = "credit"
    /\ OwnLast # 0
    /\ calls[OwnLast].state = "rejected"
    /\ response # Null
    /\ ~response.ok
    /\ response.response = Null
    /\ error = [message |-> "assessment_failed: connection_error"]

\* the mounted form's last call has settled in one of the three error
\* classes: it was rejected (transport failure or non-success status), or it
\* resolved with a body that is not a well-formed success response
C12_Failed ==
    /\ activeView \in Forms
    /\ OwnLast # 0
    /\ \/ calls[OwnLast].state = "rejected"
       \/ /\ calls[OwnLast].state = "resolved"
          /\ result # Null
          /\ result.status # "success"

\* C12: transport failures, non-success HTTP statuses and delivered
\* responses with malformed or missing fields all leave the form with its
\* error string set.
C12_AllErrorsSurfaced == C12_Failed => error # Null

----------------------------------------------------------------------------
(* Further claims about the fabricators, checked under SpecFab *)

\* |x|
Abs(x) == IF x < 0 THEN -x ELSE x

\* what is still owed after n payments of monthly_payment on
\* approved_amount at a twelfth of interest_rate a month, in hundredths of
\* a cent
C13_Balance(terms, n) ==
    LET B[k \in 0 .. n] ==
            IF k = 0 THEN 100 * terms.approved_amount
            ELSE LET prev == B[k - 1]
                     interest == IF prev >= 0
                                 THEN MulQuo(prev, terms.interest_rate, 120000)
                                 ELSE -MulQuo(-prev, terms.interest_rate, 120000)
                 IN  prev + interest - 100 * terms.monthly_payment
    IN  B[n]

\* C13: the loan terms of every loan response satisfy, within the rounding
\* of the reported figures to cents, monthly_payment * 24 - approved_amount
\* = total_interest, with total_repayment = 24 monthly payments and the
\* monthly payment the annuity payment P*r*(1+r)^24 / ((1+r)^24 - 1), the
\* payment that repays approved_amount in 24 months at r = interest_rate/12.
C13_AmortizationIdentity ==
    Made("applyMicroLoan") =>
      LET t == response.loan_terms
      IN  /\ t.loan_term_months = 24
          \* half a cent for each of the 24 payments and for each of the
          \* two other rounded figures
          /\ Abs(24 * t.monthly_payment - t.approved_amount
                 - t.total_interest) <= 13
          /\ Abs(24 * t.monthly_payment - t.total_repayment) <= 12
          /\ Abs(t.total_repayment - t.approved_amount
                 - t.total_interest) <= 1
          \* a cent for each payment
          /\ Abs(C13_Balance(t, 24)) <= 24 * 100

\* a response lent at 10% on 0.8 of the amount asked for, with interest
\* due and the rounded payments not adding up to the rounded total
C13_Witness ==
    /\ Made("applyMicroLoan")
    /\ response.loan_terms.interest_rate = 1000
    /\ response.loan_terms.approved_amount > 0
    /\ response.loan_terms.total_interest > 0
    /\ 24 * response.loan_terms.monthly_payment
         # response.loan_terms.total_repayment

\* C14: the interest rate and the approved amount of a loan response are
\* those of the band of the composite score: >= 80 6% and the amount asked
\* for (the cap of 1.2 times it never binds), >= 65 8% and the amount asked
\* for, >= 55 10% and 0.8 of it, below 55 12% and half of it; the approved
\* amount never exceeds the amount asked for.
C14_BandTerms ==
    Made("applyMicroLoan") =>
      LET x == LoanComposite
          amount == lastCall.args.amount
          t == response.loan_terms
      IN  /\ amount > 0
          /\ t.approved_amount <= amount
          /\ x >= 800 * Res =>
               t.interest_rate = 600 /\ t.approved_amount = amount
          /\ x >= 650 * Res /\ x < 800 * Res =>
               t.interest_rate = 800 /\ t.approved_amount = amount
          /\ x >= 550 * Res /\ x < 650 * Res =>
               /\ t.interest_rate = 1000
               /\ Abs(10 * t.approved_amount - 8 * amount) <= 5
          /\ x < 550 * Res =>
               /\ t.interest_rate = 1200
               /\ Abs(10 * t.approved_amount - 5 * amount) <= 5

\* a response whose composite is exactly 80: 6% on the whole amount
C14_Witness ==
    /\ Made("applyMicroLoan")
    /\ LoanComposite = 800 * Res
    /\ response.loan_terms.interest_rate = 600
    /\ response.loan_terms.approved_amount = lastCall.args.amount

\* a response whose composite is exactly 65: 8% on the whole amount
C14_WitnessSecondBand ==
    /\ Made("applyMicroLoan")
    /\ LoanComposite = 650 * Res
    /\ response.loan_terms.interest_rate = 800

\* the rating, the bands and the qualitative sub-labels of a credit response
C15_Labels(resp) ==
    [rating |-> resp.credit_rating.rating,
     interest_rate_adjustment |-> resp.credit_rating.interest_rate_adjustment,
     risk_category |-> resp.risk_analysis.risk_category,
     traditional |->
       [f \in {"revenue_assessment", "profitability_assessment",
               "leverage_assessment", "liquidity_assessment",
               "default_history"} |-> resp.risk_analysis.traditional_risk[f]],
     carbon |->
       [f \in {"emission_intensity", "trend_direction",
               "transition_readiness", "regulatory_risk",
               "stranded_asset_risk"} |-> resp.risk_analysis.carbon_risk[f]],
     esg |->
       [f \in {"environmental_rating", "social_rating", "governance_rating",
               "reputational_risk"} |-> resp.risk_analysis.esg_risk[f]]]

\* the response of a second call with the parameters and the three score
\* draws of the call made, every other draw as in CreditDefault
C15_SecondCall ==
    mockCreditAssessment(lastCall.args.entity_id, lastCall.args.entity_type,
                         lastCall.now,
                         [CreditDefault EXCEPT
                            !.traditionalScore = lastCall.d.traditionalScore,
                            !.carbonScore = lastCall.d.carbonScore,
                            !.esgScore = lastCall.d.esgScore])

\* C15: two credit calls with the same parameters and the same traditional,
\* carbon and ESG draws yield the same rating, bands and sub-labels.
C15_LabelsFromScoresOnly ==
    Made("assessCredit") => C15_Labels(response) = C15_Labels(C15_SecondCall)

\* C16: every fabricated response carries the identity it was called with:
\* a credit response the entity id and the entity type, a loan response the
\* applicant id (at the top and in its assessment), a greenwashing response
\* the company id.
C16_IdentityEchoed ==
    /\ Made("assessCredit") =>
         /\ response.entity_id = lastCall.args.entity_id
         /\ "entity_type" \in DOMAIN response
         /\ response.entity_type = lastCall.args.entity_type
    /\ Made("applyMicroLoan") =>
         /\ response.applicant_id = lastCall.args.applicant_id
         /\ response.assessment.applicant_id = lastCall.args.applicant_id
    /\ Made("checkGreenwashing") =>
         response.company_id = lastCall.args.company_id

\* the bucket of a footprint: 2 years up to 100 tons, 5 up to 300, else 8
C17_Bucket(footprint, years) ==
    /\ footprint <= 100 => years = 2
    /\ footprint > 100 /\ footprint <= 300 => years = 5
    /\ footprint > 300 => years = 8

\* C17: the net-zero timeline is the bucket of the green portfolio's
\* footprint, 2 years up to 100 tons, 5 years up to 300 tons and 8 years
\* above, 100 and 300 in the lower bucket; and in a portfolio response the
\* green portfolio's carbon_neutrality_timeline_years equals the
\* comparison's net_zero_timeline_years.
C17_NetZeroTimeline ==
    /\ Made("optimizePortfolio") =>
         /\ response.green_portfolio.carbon_neutrality_timeline_years
              = response.carbon_comparison.net_zero_timeline_years
         /\ C17_Bucket(response.green_portfolio.annual_carbon_footprint,
                       response.carbon_comparison.net_zero_timeline_years)
    /\ Made("netZeroTimeline") =>
         C17_Bucket(lastCall.args.carbonFootprint,
                    response.net_zero_timeline_years)

\* a footprint of exactly 300 tons: 5 years
C17_Witness ==
    /\ Made("netZeroTimeline")
    /\ lastCall.args.carbonFootprint = 300
    /\ response.net_zero_timeline_years = 5

\* the moderate tier: a green footprint of 59 tons, 2 years in both fields
C17_WitnessResponse ==
    /\ Made("optimizePortfolio")
    /\ response.green_portfolio.annual_carbon_footprint = 59
    /\ response.green_portfolio.carbon_neutrality_timeline_years = 2
    /\ response.carbon_comparison.net_zero_timeline_years = 2

----------------------------------------------------------------------------
(* Further claims about the gateway, checked under Spec *)

\* the delay a mock call awaits, in ms
C18_Delay(call) == call.trace[1].ms

\* C18: in mock mode every gateway call awaits a fixed delay between 500
\* and 2000 ms, and calls of different operations await different delays.
C18_DelaysDistinct ==
    USE_MOCK =>
      \A i, j \in DOMAIN calls :
        /\ calls[i].trace[1].ev = "delay"
        /\ C18_Delay(calls[i]) \in 500 .. 2000
        /\ calls[i].op = calls[j].op => C18_Delay(calls[i]) = C18_Delay(calls[j])
        /\ calls[i].op # calls[j].op => C18_Delay(calls[i]) # C18_Delay(calls[j])

----------------------------------------------------------------------------
(* The portfolio aggregates and the greenwashing rules, checked under SpecFab *)

\* sum of allocation_i * value_i over an asset table, value_i the row's
\* field: over 100000 for expected_return, over 10000 for volatility, over
\* 100 for annual_co2_tons
C19_Weighted(table, field) ==
    SumOver([i \in 1 .. Len(table) |-> table[i][field] * table[i].allocation],
            Len(table))

\* the asset table a portfolio of the response was generated from
C19_Table(isGreen) == assetSets(isGreen)[lastCall.args.risk_tolerance]

\* the reported expected return (ten-thousandths) and volatility
\* (ten-thousandths) are the table's weighted sums, up to half a unit of
\* the reported figure
C19_ReturnAndVolatility(portfolio, table) ==
    /\ Abs(10 * portfolio.expected_return
             - C19_Weighted(table, "expected_return")) <= 5
    /\ 2 * Abs(portfolio.volatility - C19_Weighted(table, "volatility")) <= 1

\* the reported footprint (tons) is the table's weighted sum, up to half a
\* ton
C19_FootprintWeighted(portfolio, table) ==
    Abs(100 * portfolio.annual_carbon_footprint
          - C19_Weighted(table, "annual_co2_tons")) <= 50

\* the reported footprint is the sum of the shares reported with the
\* portfolio's assets, and each share is allocation_i * annual_co2_tons_i
\* of the table up to half a ton
C19_FootprintOfShares(portfolio, table) ==
    /\ Len(portfolio.assets) = Len(table)
    /\ portfolio.annual_carbon_footprint
         = SumOver([i \in 1 .. Len(table) |->
                      portfolio.assets[i].annual_co2_tons], Len(table))
    /\ \A i \in 1 .. Len(table) :
         Abs(100 * portfolio.assets[i].annual_co2_tons
               - table[i].annual_co2_tons * table[i].allocation) <= 50

\* C19 as stated: in every portfolio response the expected return, the
\* volatility and the annual carbon footprint of each portfolio equal the
\* allocation-weighted sum over its asset table, up to the final rounding
\* of the reported figure.
C19_WeightedSums ==
    Made("optimizePortfolio") =>
      /\ C19_ReturnAndVolatility(response.traditional_portfolio,
                                 C19_Table(FALSE))
      /\ C19_ReturnAndVolatility(response.green_portfolio, C19_Table(TRUE))
      /\ C19_FootprintWeighted(response.traditional_portfolio,
                               C19_Table(FALSE))
      /\ C19_FootprintWeighted(response.green_portfolio, C19_Table(TRUE))

\* C19 as amended: the expected return and the volatility of each portfolio
\* equal the allocation-weighted sum over its asset table up to the final
\* rounding; the annual carbon footprint equals the sum of the per-asset
\* shares reported with the assets, each share being allocation_i *
\* annual_co2_tons_i rounded to a whole ton.
C19_SumOfRoundedShares ==
    Made("optimizePortfolio") =>
      /\ C19_ReturnAndVolatility(response.traditional_portfolio,
                                 C19_Table(FALSE))
      /\ C19_ReturnAndVolatility(response.green_portfolio, C19_Table(TRUE))
      /\ C19_FootprintOfShares(response.traditional_portfolio,
                               C19_Table(FALSE))
      /\ C19_FootprintOfShares(response.green_portfolio, C19_Table(TRUE))

\* the conservative tier: green shares of 13, 13, 15 and 8 tons, 49 tons
\* reported where the weighted sum is 47.5
C19_Witness ==
    /\ Made("optimizePortfolio")
    /\ lastCall.args.risk_tolerance = "conservative"
    /\ response.green_portfolio.annual_carbon_footprint = 49
    /\ C19_Weighted(C19_Table(TRUE), "annual_co2_tons") = 4750
    /\ response.green_portfolio.expected_return = 553
    /\ response.green_portfolio.volatility = 840

\* whether each of the three rules fires on the draws of a greenwashing
\* call, in rule order (trend in thousandths)
C20_Fired ==
    LET d == lastCall.d
    IN  <<d.envScore > 80 /\ d.emissions > 3000,
          d.envScore > 70 /\ d.renewablePct < 20,
          d.trend > 50 /\ d.envScore > 75>>

C20_Points == <<2, 3, 3>>

C20_Records ==
    <<[type |-> "high_score_high_emissions", severity |-> "medium"],
      [type |-> "score_renewable_mismatch", severity |-> "high"],
      [type |-> "increasing_emissions_high_score", severity |-> "high"]>>

\* the records of the rules that fired, in rule order
C20_ExpectedAnomalies ==
    (IF C20_Fired[1] THEN <<C20_Records[1]>> ELSE <<>>)
    \o (IF C20_Fired[2] THEN <<C20_Records[2]>> ELSE <<>>)
    \o (IF C20_Fired[3] THEN <<C20_Records[3]>> ELSE <<>>)

\* the points of the rules that fired
C20_ExpectedRiskFactors ==
    SumOver([i \in 1 .. 3 |-> IF C20_Fired[i] THEN C20_Points[i] ELSE 0], 3)

\* C20: the greenwashing check evaluates three independent rules, (env > 80
\* and emissions > 3000) for 2 points and severity medium, (env > 70 and
\* renewable < 20) for 3 points and severity high, (trend > 0.05 and env >
\* 75) for 3 points and severity high; for every combination of draws the
\* anomalies are one record per fired rule in rule order, anomaly_count is
\* the length of that list, and riskFactors, as the risk index
\* min(100, riskFactors * 15 + draw) shows it, is the sum of the points of
\* the rules that fired.
C20_RulesTally ==
    Made("checkGreenwashing") =>
      /\ Len(response.anomalies) = Len(C20_ExpectedAnomalies)
      /\ \A i \in 1 .. Len(response.anomalies) :
           /\ response.anomalies[i].type = C20_ExpectedAnomalies[i].type
           /\ response.anomalies[i].severity
                = C20_ExpectedAnomalies[i].severity
      /\ response.anomaly_count = Len(response.anomalies)
      /\ response.greenwashing_risk_index
           = MathMin(100,
                     C20_ExpectedRiskFactors * 15 + lastCall.d.riskDraw)

\* the first and the third rule fire and the second does not: 5 points, an
\* index of 75 plus the draw, two anomalies in rule order
C20_Witness ==
    /\ Made("checkGreenwashing")
    /\ C20_Fired = <<TRUE, FALSE, TRUE>>
    /\ response.anomaly_count = 2
    /\ response.anomalies[1].type = "high_score_high_emissions"
    /\ response.anomalies[2].type = "increasing_emissions_high_score"
    /\ response.greenwashing_risk_index = 75 + lastCall.d.riskDraw

\* the second rule alone: 3 points, one anomaly of severity high
C20_WitnessSecondRule ==
    /\ Made("checkGreenwashing")
    /\ C20_Fired = <<FALSE, TRUE, FALSE>>
    /\ response.anomaly_count = 1
    /\ response.anomalies[1].severity = "high"
    /\ response.greenwashing_risk_index = 45 + lastCall.d.riskDraw

----------------------------------------------------------------------------
(* The risk level and the recommendations, checked under SpecFab *)

\* the level the claim gives an index
C21_Level(index, level) ==
    /\ index > 60 => level = "high"
    /\ index > 30 /\ index <= 60 => level = "moderate"
    /\ index <= 30 => level = "low"

\* C21: the greenwashing risk level is a total function of the risk index,
\* high above 60, moderate above 30 and up to 60, low up to 30; the boundary
\* values 60 and 30 are moderate and low.
C21_RiskLevelBands ==
    /\ Made("checkGreenwashing") =>
         /\ response.risk_level \in {"high", "moderate", "low"}
         /\ C21_Level(response.greenwashing_risk_index, response.risk_level)
    /\ Made("riskLevel") =>
         /\ response.risk_level \in {"high", "moderate", "low"}
         /\ C21_Level(lastCall.args.riskIndex, response.risk_level)

\* a response whose index is exactly 60 (3 points and a draw of 15):
\* moderate
C21_Witness ==
    /\ Made("checkGreenwashing")
    /\ response.greenwashing_risk_index = 60
    /\ response.risk_level = "moderate"

\* the level expression at exactly 30: low
C21_WitnessLow ==
    /\ Made("riskLevel")
    /\ lastCall.args.riskIndex = 30
    /\ response.risk_level = "low"

C22_Verify == "Request third-party verification of carbon claims"

C22_Audit == "Conduct detailed supply chain emissions audit"

C22_Monitor == "Monitor emissions data more frequently"

C22_Continue == "Continue current monitoring practices"

C22_Publish == "Consider publishing detailed sustainability reports"

C22_Items(recs) == {recs[i] : i \in DOMAIN recs}

\* the list the claim gives an index
C22_Bands(index, recs) ==
    /\ index > 50 => recs = <<C22_Verify, C22_Audit, C22_Monitor>>
    /\ index > 30 /\ index <= 50 => recs = <<C22_Monitor>>
    /\ index <= 30 => recs = <<C22_Continue, C22_Publish>>
    /\ Len(recs) > 0
    /\ ~(C22_Monitor \in C22_Items(recs)
         /\ C22_Items(recs) \cap {C22_Continue, C22_Publish} # {})

\* C22: the recommendations are built cumulatively: an index above 50
\* yields the two items of that band followed by the item of the band above
\* 30 (3 items), an index in 31..50 that item alone, an index up to 30 the
\* two low-risk items; the list is never empty and the item of the band
\* above 30 never appears with the low-risk items.
C22_CumulativeRecommendations ==
    /\ Made("checkGreenwashing") =>
         C22_Bands(response.greenwashing_risk_index, response.recommendations)
    /\ Made("riskLevel") =>
         C22_Bands(lastCall.args.riskIndex, response.recommendations)

\* a response with an index above 50 (3 points and a draw of 6): three
\* items, the last the one of the band above 30
C22_Witness ==
    /\ Made("checkGreenwashing")
    /\ response.greenwashing_risk_index = 51
    /\ Len(response.recommendations) = 3
    /\ response.recommendations[3] = C22_Monitor

\* the ifs at exactly 50: the item of the band above 30 alone
C22_WitnessMiddle ==
    /\ Made("riskLevel")
    /\ lastCall.args.riskIndex = 50
    /\ response.recommendations = <<C22_Monitor>>

----------------------------------------------------------------------------
(* Claims about overlapping submissions of one form, checked under SpecForm *)

\* the calls the mounted form instance made
C23_Own == {i \in DOMAIN calls : calls[i].inst = instance}

\* call i of the mounted form settles in this step
C23_Settles(i) ==
    /\ i \in C23_Own
    /\ InFlight(calls[i])
    /\ ~InFlight(calls'[i])

\* the bodies call i can resolve with
C23_Bodies(call) ==
    {fabricate(call.op, call.args, 0, d) : d \in MockDraws(call.op)}
    \cup {[status |-> "error"]}

\* a settlement of a call of the mounted form writes the form's state,
\* whichever other calls of the form are in flight and whether or not the
\* call was the one submitted last
C23_SettlementWrites ==
    \A i \in DOMAIN calls :
      C23_Settles(i) =>
        /\ loading' = FALSE
        /\ calls'[i].state = "resolved" =>
             /\ result' \in C23_Bodies(calls[i])
             /\ error' = error
        /\ calls'[i].state = "rejected" =>
             /\ error' = [message |->
                            errorMessage(response', fallbackError(activeView))]
             /\ result' = result

\* a submission or a settlement is the only step that changes what the form
\* shows
C23_OnlyHandlerWrites ==
    (\A i \in DOMAIN calls : ~C23_Settles(i)) /\ Len(calls') = Len(calls)
      => UNCHANGED <<loading, result, error>>

\* C23: handleSubmit has no request-generation guard and no cancellation:
\* when calls of the same mounted form overlap, each settlement writes the
\* view state, so what is finally shown is the outcome of the call that
\* settled last, which need not be the call submitted last, and the first
\* settlement sets loading to false while the other call is in flight.
C23_LastWriteWins == [][C23_SettlementWrites /\ C23_OnlyHandlerWrites]_vars

\* two requests of one form, the second resolved before the first: the
\* result shown is the first submission's
C23_Witness ==
    /\ ~USE_MOCK
    /\ activeView = "credit"
    /\ Len(calls) = 2
    /\ calls[1].args.entity_id # calls[2].args.entity_id
    /\ calls[1].state = "resolved"
    /\ calls[2].state = "resolved"
    /\ result # Null
    /\ "entity_id" \in DOMAIN result
    /\ result.entity_id = calls[1].args.entity_id

\* one call settled and loading is false while another call of the form is
\* in flight
C23_WitnessLoading ==
    /\ ~loading
    /\ \E i, j \in C23_Own :
         /\ ~InFlight(calls[i])
         /\ InFlight(calls[j])

\* through the rendered form, whose button is disabled while loading, the
\* calls of the mounted form never overlap (an invariant of Spec)
C23_ButtonSerializes ==
    \A i, j \in C23_Own :
      InFlight(calls[i]) /\ InFlight(calls[j]) => i = j

----------------------------------------------------------------------------
(* The unused target return, checked under SpecFab *)

\* a portfolio response with its timestamp set aside
C24_SansTimestamp(resp) == [resp EXCEPT !.timestamp = 0]

\* the response of a second call with the capital, the tier and the draws
\* of the call made, at time n with target return t
C24_SecondCall(t, n) ==
    mockPortfolioOptimization(lastCall.args.capital,
                              lastCall.args.risk_tolerance, t, n, lastCall.d)

\* C24: the portfolio response does not depend on the target return: two
\* calls with the same capital, tier and draws and different target
\* returns give the same response, the timestamp aside.
C24_TargetReturnUnused ==
    Made("optimizePortfolio") =>
      \A t \in TargetReturns, n \in Times :
        C24_SansTimestamp(C24_SecondCall(t, n)) = C24_SansTimestamp(response)

\* a call with a target return of 12 whose response is that of the call
\* with a target return of 5
C24_Witness ==
    /\ Made("optimizePortfolio")
    /\ lastCall.args.target_return = 12
    /\ lastCall.args.capital = 1234567
    /\ C24_SansTimestamp(response)
         = C24_SansTimestamp(C24_SecondCall(5, lastCall.now))
    /\ response.green_portfolio.total_value = 1234567

----------------------------------------------------------------------------
(* Claims about the Dashboard's timer, checked under SpecDash *)

\* the timer's callback runs in this step
C25_Tick ==
    /\ interval # Null
    /\ interval' # Null
    /\ interval'.inst = interval.inst
    /\ interval'.fired = interval.fired + 1

\* a tick adds 0..2 to totalAssessments and 0..99 to carbonReduced and
\* leaves the other counters, the views and the gateway alone
C25_TickEffect ==
    C25_Tick =>
      /\ stats'.totalAssessments - stats.totalAssessments \in 0 .. 2
      /\ stats'.carbonReduced - stats.carbonReduced \in 0 .. 99
      /\ stats'.greenInvestments = stats.greenInvestments
      /\ stats'.loansApproved = stats.loansApproved
      /\ UNCHANGED <<USE_MOCK, activeView, instance, loading, result, error,
                     systemStatus, calls>>

\* while one Dashboard stays mounted its counters change in ticks only, so
\* neither totalAssessments nor carbonReduced ever decreases
C25_NonDecreasing ==
    instance' = instance /\ stats # Null =>
      /\ ~C25_Tick => stats' = stats
      /\ stats'.totalAssessments >= stats.totalAssessments
      /\ stats'.carbonReduced >= stats.carbonReduced

\* the timer is set exactly while a Dashboard is mounted, and is that
\* Dashboard's: after the unmount there is no timer left to tick
C25_TimerOfMountedDashboard ==
    /\ interval # Null <=> activeView = "dashboard"
    /\ interval # Null => interval.inst = instance /\ stats # Null
    /\ interval = Null => stats = Null

C25_WitnessUnmounted ==
    /\ activeView \in Forms
    /\ instance = 2
    /\ interval = Null

----------------------------------------------------------------------------
(* Claims about what the views show, checked under Spec and SpecLive *)

\* the MicroLoan view holds the result of a rejected application
C26_Rejected ==
    /\ activeView = "loan"
    /\ result # Null
    /\ "status" \in DOMAIN result
    /\ result.status = "success"
    /\ ~result.approval_status

C26_TermCards == {"alternative_credit_assessment", "loan_terms", "special_terms"}

\* C26: the MicroLoan view shows the assessment, loan-terms and
\* special-terms cards only for a result whose status is success and whose
\* approval_status is true; for a rejected application it shows the
\* [PENDING] status line alone and reads no loan term.
C26_NoTermsWhenRejected ==
    activeView = "loan" =>
      LET view == renderMicroLoan(error, result)
          cards == {view.cards[i] : i \in DOMAIN view.cards}
      IN  /\ cards \cap C26_TermCards # {} =>
               /\ result # Null
               /\ result.status = "success"
               /\ result.approval_status
          /\ C26_Rejected =>
               /\ view.cards = <<"application_status">>
               /\ view.status_line
                    = "[PENDING] application requires additional review"
               /\ view.loan_terms = Null
               /\ view.special_terms = <<>>

\* a rejected application whose result carries loan terms all the same
C26_Witness ==
    /\ C26_Rejected
    /\ result.loan_terms.approved_amount > 0
    /\ renderMicroLoan(error, result).cards = <<"application_status">>

\* an approved application: the four cards
C26_WitnessApproved ==
    /\ activeView = "loan"
    /\ result # Null
    /\ Len(renderMicroLoan(error, result).cards) = 4

\* the mounted form submits in this step
C27_Submits ==
    /\ activeView \in Forms
    /\ Len(calls') = Len(calls) + 1
    /\ calls'[Len(calls')].inst = instance

\* result and error of the mounted form: never both set, and both null
\* while its call is in flight
C27_NeverBoth ==
    activeView \in Forms =>
      /\ ~(result # Null /\ error # Null)
      /\ (\E i \in C23_Own : InFlight(calls[i])) =>
           result = Null /\ error = Null

\* a submission clears both, a settlement sets exactly one
C27_ClearThenSet ==
    /\ C27_Submits => result' = Null /\ error' = Null
    /\ \A i \in DOMAIN calls :
         C23_Settles(i) /\ activeView \in Forms =>
           /\ calls'[i].state = "resolved" => result' # Null /\ error' = Null
           /\ calls'[i].state = "rejected" => error' # Null /\ result' = Null

\* C27: in a form view whose submissions do not overlap, result and error
\* are never both non-null: every submission first clears both, then
\* exactly one is set when the call settles, result on resolve and error on
\* reject, and both are null while the call is in flight.
C27_ResultXorError == []C27_NeverBoth /\ [][C27_ClearThenSet]_vars

\* a form whose first submission was rejected and whose second resolved:
\* the result is shown and the error is gone
C27_Witness ==
    /\ activeView \in Forms
    /\ \E i, j \in C23_Own :
         /\ i < j
         /\ calls[i].state = "rejected"
         /\ calls[j].state = "resolved"
    /\ result # Null
    /\ error = Null

\* the getSystemStatus calls that component instance k issued
C28_Fetches(k) ==
    {i \in DOMAIN calls :
       calls[i].inst = k /\ calls[i].op = "getSystemStatus"}

\* the record the catch of fetchSystemStatus sets, its time aside
C28_IsFallback(st) ==
    /\ st.status = "operational"
    /\ DOMAIN st.agents = {"data_collection", "risk_assessment",
                           "portfolio_optimization", "inclusion"}
    /\ \A a \in DOMAIN st.agents : st.agents[a] = "active"

\* the mounted Dashboard issued exactly one status call; no error is set;
\* while the call is in flight the Dashboard is loading, and once it
\* settled loading is false and systemStatus is set, to the fallback
\* record when the call rejected
C28_Fetch ==
    /\ \A k \in 1 .. instance : Cardinality(C28_Fetches(k)) <= 1
    /\ activeView = "dashboard" =>
         /\ Cardinality(C28_Fetches(instance)) = 1
         /\ error = Null
         /\ \A i \in C28_Fetches(instance) :
              /\ InFlight(calls[i]) => loading /\ systemStatus = Null
              /\ ~InFlight(calls[i]) => ~loading /\ systemStatus # Null
              /\ calls[i].state = "rejected" => C28_IsFallback(systemStatus)

\* C28: the Dashboard's status fetch never surfaces an error: when
\* getSystemStatus rejects, systemStatus is set to a fixed record with
\* status operational and the four agents active; whether the call resolves
\* or rejects, loading eventually becomes false and systemStatus non-null;
\* and exactly one getSystemStatus call is issued per mount.
C28_StatusFetch ==
    /\ []C28_Fetch
    /\ \A k \in 1 .. MaxMounts :
         (instance = k /\ activeView = "dashboard")
           ~> (instance # k \/ (~loading /\ systemStatus # Null))

\* a Dashboard whose status request failed: the fallback record is shown
C28_Witness ==
    /\ activeView = "dashboard"
    /\ \E i \in C28_Fetches(instance) : calls[i].state = "rejected"
    /\ ~loading
    /\ C28_IsFallback(systemStatus)
    /\ error = Null

\* a second Dashboard, mounted while the first one's call is in flight,
\* with its own call resolved
C28_WitnessRemount ==
    /\ activeView = "dashboard"
    /\ instance = 3
    /\ InFlight(calls[1])
    /\ \E i \in C28_Fetches(3) : calls[i].state = "resolved"
    /\ systemStatus # Null

----------------------------------------------------------------------------
(* The footprints of the mock portfolios, checked under SpecFab *)

\* C29: for every risk tier and every capital the green portfolio's
\* footprint is strictly below the traditional portfolio's and at most 100
\* tons, so reduction_tons is positive and the net-zero timeline is 2 years
\* in every mock response: the 5-year and the 8-year bucket are never
\* reached.
C29_GreenBelowHundred ==
    Made("optimizePortfolio") =>
      /\ response.green_portfolio.annual_carbon_footprint
           < response.traditional_portfolio.annual_carbon_footprint
      /\ response.green_portfolio.annual_carbon_footprint <= 100
      /\ response.carbon_comparison.reduction_tons > 0
      /\ response.carbon_comparison.net_zero_timeline_years = 2
      /\ response.green_portfolio.carbon_neutrality_timeline_years = 2

\* the aggressive tier, whose green footprint is the largest: 64 tons
\* against 3050, a reduction of 2986 tons and 2 years
C29_Witness ==
    /\ Made("optimizePortfolio")
    /\ lastCall.args.risk_tolerance = "aggressive"
    /\ lastCall.args.capital = 100
    /\ response.green_portfolio.annual_carbon_footprint = 64
    /\ response.traditional_portfolio.annual_carbon_footprint = 3050
    /\ response.carbon_comparison.reduction_tons = 2986
    /\ response.carbon_comparison.net_zero_timeline_years = 2

----------------------------------------------------------------------------
(* The risk level against the anomalies, checked under SpecFab *)

\* the severities of the anomalies of a greenwashing response
C30_Severities ==
    {response.anomalies[i].severity : i \in DOMAIN response.anomalies}

\* C30: in every greenwashing response the level is consistent with the
\* anomalies: with no anomaly the index is at most 19 and the level low,
\* and the level is high only with at least one anomaly of severity high
\* (3 risk factors or more).
C30_LevelMatchesAnomalies ==
    Made("checkGreenwashing") =>
      /\ response.anomalies = <<>> =>
           /\ response.greenwashing_risk_index <= 19
           /\ response.risk_level = "low"
      /\ response.risk_level = "high" =>
           /\ "high" \in C30_Severities
           /\ C20_ExpectedRiskFactors >= 3

\* the level high on a single anomaly of severity high: 3 points and a draw
\* of 16 or more
C30_Witness ==
    /\ Made("checkGreenwashing")
    /\ response.risk_level = "high"
    /\ response.anomaly_count = 1
    /\ response.anomalies[1].severity = "high"
    /\ response.greenwashing_risk_index \in 61 .. 64

\* no anomaly and the largest draw: an index of 19, low
C30_WitnessNoAnomaly ==
    /\ Made("checkGreenwashing")
    /\ response.anomalies = <<>>
    /\ response.greenwashing_risk_index = 19
    /\ response.risk_level = "low"

\* the medium anomaly alone and the largest draw: an index of 49, moderate
C30_WitnessMediumOnly ==
    /\ Made("checkGreenwashing")
    /\ C30_Severities = {"medium"}
    /\ response.greenwashing_risk_index = 49
    /\ response.risk_level = "moderate"

====
